---- MODULE Spec2Model ----
(***************************************************************************)
(* IDB_lib: the IndexedDBManager of src/src/core/IndexedDBManager.ts.      *)
(*                                                                         *)
(* The model follows executeTransaction (the transaction coordinator) and  *)
(* openDatabase/close (the connection lifecycle).  The storage engine is   *)
(* the environment: it answers open requests, commits or aborts the        *)
(* transactions the manager creates and fires their oncomplete, onerror    *)
(* and onabort handlers, in any order and possibly more than once.         *)
(***************************************************************************)
EXTENDS Naturals, FiniteSets, Sequences, TLC

\* ------------------------------------------------------------------ bounds
\* Number of executeTransaction calls issued on the manager.
NCalls == 1

\* Number of data operations issued concurrently on one store.
NOps == 2
\* Largest number of items in one addMany, updateMany or deleteMany call.
MaxBatch == 2
\* How far Date.now() advances, and the largest value of
\* Math.floor(Math.random() * 1000) the model draws.
MaxTicks == 1
MaxRandom == 1

Calls == 1..NCalls
\* The open requests: one per executeTransaction call that finds this.db
\* unset, and one for the application's own call of openDatabase().
ExplicitOpen == NCalls + 1
Requests == Calls \cup {ExplicitOpen}

\* ------------------------------------------------------------------ values
\* JavaScript values the coordinator tests for truthiness.
Undefined == "undefined"
Null == "null"
Truthy(v) == v \notin {Undefined, Null}

\* a || b
Or(a, b) == IF Truthy(a) THEN a ELSE b

\* new Error("Transaction aborted")
AbortedError == "Transaction aborted"
\* new Error(`Store '${storeName}' not found. Available stores: [...]`)
NotFoundError == "Store not found"
\* what db.transaction(storeName, mode) throws on a closed connection
TxStartError == "InvalidStateError"
\* request.error || new Error('Unknown database error')
OpenError == "OpenError"

\* What a unit-of-work may raise: an Error, or a falsy value
\* (throw undefined, Promise.reject(null)).
UowErrors == {"E1", Null}
\* What a unit-of-work may return.
UowResults == {"R1"}
\* transaction.error as the handlers read it: a DOMException or null.
EngineErrors == {"EngineError", Null}

\* The manager's configuration (legacy single-store mode): dbConfig.
DbConfigStore == "s1"
ConfigVersion == 1
\* Store names an operation may give: the configured one and one that the
\* upgrade never creates.
StoreNames == {"s1", "s2"}
Modes == {"readonly", "readwrite"}
\* The key a read-write unit-of-work puts.
Keys == {1}

\* this.db: null, or the connection the last successful open request gave.
NoDb == "null"
OpenDb == "open"
\* The connection a call holds in its local db, told by what happened to it:
\* it is the one this.db holds, it was replaced in this.db by a later open
\* and is still open, or close() was called on it.
NoConn == "none"
NoTxn == [state |-> "none", abortRequested |-> FALSE,
          writes |-> {}, error |-> Null]

\* The arguments of a call.  What its callback does (return a value, throw
\* synchronously, return a pending value that fails) is drawn when the
\* callback does it.
CallArgs == [storeName : StoreNames, mode : Modes]

\* The callback's position: not called, running (its pending value is still
\* pending), or finished with what it returned or raised.
UowNotRun == [st |-> "notRun", val |-> Undefined]
UowRunning == [st |-> "running", val |-> Undefined]

VARIABLES
  db,               \* this.db: NoDb (null) or OpenDb (a connection)
  engineVersion,    \* version of the stored database (0: not created yet)
  objectStoreNames, \* db.objectStoreNames
  storeData,        \* committed content of each store: key -> writer (0: none)
  pc,               \* position of each executeTransaction call
  openCall,         \* position of the application's openDatabase() call
  args,             \* arguments of each call
  conn,             \* const db = await this.openDatabase(): its state
  ctx,              \* the locals of executeTransaction and its promise
  uow,              \* position of the callback
  txn,              \* the IDBTransaction created by the call
  hasAbort,         \* whether the engine's transaction handles offer abort()
  content,          \* the records of the store the data operations work on
  content0,         \* its records before the first data operation
  now,              \* Date.now()
  ops,              \* the data operations issued on the manager
  stores,           \* the stored database before and after an upgrade
  schema,           \* dbSchema: the stores and indexes the manager declares
  upgraded,         \* whether onupgradeneeded has run
  upgradeError,     \* whether a call of the upgrade handler threw
  table,            \* the records of a store, with their ids and fields
  call,             \* the call of the manager in progress on that store
  dbConfig,         \* this.dbConfig
  thisDb,           \* this.db: 0 (null) or the connection it holds
  closedDbs,        \* the connections close() was called on
  setCall,          \* the call of setDatabase in progress
  collections,      \* the records of each store of the connection
  mutation,         \* the mutating call in progress on one of these stores
  events,           \* Emitter.events: the callbacks registered for each event
  emitterCall,      \* the last call made on the emitter
  emitterInstance,  \* this.emitterInstance: the emitter the manager uses
  calc,             \* a function of the library, its argument and its value
  requests,         \* the requests of indexedDB.open the manager has made
  importCall,       \* the call of importDataToDatabase in progress
  importStore       \* the store it imports into, and its transaction

\* The state of the coordinator and of the connection.
coreVars == <<db, engineVersion, objectStoreNames, storeData,
              pc, openCall, args, conn, ctx, uow, txn, hasAbort>>
\* The state of the data operations.
opsVars == <<content, content0, now, ops>>
\* The state of a schema upgrade.
upgradeVars == <<stores, schema, upgraded, upgradeError>>
\* The state of the calls that are followed with their ids and their records.
recordVars == <<table, call>>
\* The manager's configuration, and the state of the calls on several stores.
configVars == <<dbConfig, thisDb, closedDbs, setCall>>
multiVars == <<collections, mutation>>
\* The state of the emitter.
emitterVars == <<events, emitterCall, emitterInstance>>
\* The state of the calls of the utilities.
importVars == <<importCall, importStore>>
utilVars == <<calc, requests, importCall, importStore>>

vars == <<db, engineVersion, objectStoreNames, storeData,
          pc, openCall, args, conn, ctx, uow, txn, hasAbort,
          content, content0, now, ops, stores, schema, upgraded,
          upgradeError, table, call, dbConfig, thisDb, closedDbs, setCall,
          collections, mutation, events, emitterCall, emitterInstance, calc,
          requests, importCall, importStore>>

NoArgs == [storeName |-> DbConfigStore, mode |-> "readonly"]

\* The locals declared at lines 912-915 and the promise of line 897
\* (state and value: pending, or resolved or rejected with a value).
NewCtx == [callbackResult |-> Undefined, callbackError |-> Undefined,
           isCallbackDone |-> FALSE, isTransactionDone |-> FALSE,
           state |-> "pending", value |-> Undefined]

\* ---------------------------------------------------------------- promise
\* A reject that overwrites an earlier settlement (a hand-made deferred in
\* place of the promise).
rejectOverwrites(x, e) == [x EXCEPT !.state = "rejected", !.value = e]

\* reject(e) of the promise of executeTransaction: the first settlement wins.
reject(x, e) ==
  IF x.state = "pending"
  THEN [x EXCEPT !.state = "rejected", !.value = e]
  ELSE x

\* resolve(v) of the promise of executeTransaction.
resolve(x, v) ==
  IF x.state = "pending"
  THEN [x EXCEPT !.state = "resolved", !.value = v]
  ELSE x

\* ------------------------------------------------------------ coordinator
checkCompletion(x) ==
  IF x.isCallbackDone /\ x.isTransactionDone
  THEN IF Truthy(x.callbackError)
       THEN reject(x, x.callbackError)
       ELSE resolve(x, x.callbackResult)
  ELSE x

\* transaction.oncomplete
oncomplete(x) == checkCompletion([x EXCEPT !.isTransactionDone = TRUE])

\* transaction.onerror, t the transaction
onerror(x, t) == reject(x, t.error)

\* transaction.onabort
onabort(x, t) == reject(x, Or(t.error, AbortedError))

\* transaction.abort(): an active transaction is marked for abort; on a
\* finished one the call changes nothing (the engine throws InvalidStateError
\* into the .catch handler, the test double returns).
abort(t) == IF t.state = "active" THEN [t EXCEPT !.abortRequested = TRUE] ELSE t

\* The .then handler of the callback's promise.
thenHandler(x, result) ==
  checkCompletion([x EXCEPT !.callbackResult = result, !.isCallbackDone = TRUE])

\* The .catch handler of the callback's promise, on a handle with or without
\* an abort operation.
catchHandlerCtx(x, err) ==
  LET y == [x EXCEPT !.callbackError = err, !.isCallbackDone = TRUE]
  IN IF hasAbort THEN y ELSE checkCompletion(y)

\* A .catch handler that records the failure and leaves the transaction to
\* commit.
catchHandlerTxnNoAbort(t) == t

catchHandlerTxn(t) == IF hasAbort THEN abort(t) ELSE t

\* catch (error) of the synchronous call of the callback.
syncCatchCtx(x, err) == reject(x, err)

syncCatchTxn(t) == IF hasAbort THEN abort(t) ELSE t

\* An executor that goes on to db.transaction without the store check.
StoreMissingUnchecked(storeName) == FALSE

\* if (!db.objectStoreNames.contains(storeName))
StoreMissing(storeName) == storeName \notin objectStoreNames

\* -------------------------------------------------- data operations: values
OpProcs == 1..NOps
\* The ids applications give explicitly.
Ids == {1, 2}
\* Date.now() when the first operation is issued; far above the explicit ids.
Epoch == 10
\* An item's id property: absent ({}) or one of Ids.  isValidId(data.id).
Items == {{}} \cup {{i} : i \in Ids}
isValidId(item) == item # {}
\* data.id of an item that has one.
IdOf(item) == CHOOSE i \in item : TRUE

\* The records of a store: pairs <<id, writer>>, at most one per id; the
\* writer is the operation whose put stored the record, 0 for a record that
\* was there before the first operation.
SeededContents == {{<<i, 0>> : i \in S} : S \in SUBSET Ids}
storeIds(data) == {r[1] : r \in data}
storeHas(data, id) == id \in storeIds(data)

\* store.add(item): a put that fails when the key is taken.
storeAddOk(data, id) == ~storeHas(data, id)

\* Whether store.put(item) succeeds on the store as it is: put overwrites.
storePutOk(data, id) == TRUE

\* store.put that drops the other records of the store.
storePutReplacesAll(data, id, w) == {<<id, w>>}

\* store.put({..., id}) by operation w.
storePut(data, id, w) == {r \in data : r[1] # id} \cup {<<id, w>>}

\* store.delete(id)
storeDelete(data, id) == {r \in data : r[1] # id}

\* The least element of a non-empty set of numbers, and the greatest.
Least(S) == CHOOSE x \in S : \A y \in S : x <= y
Greatest(S) == CHOOSE x \in S : \A y \in S : y <= x

\* store.getAll(): the ids of the records in key order.
RECURSIVE SortedSeq(_)
SortedSeq(S) ==
  IF S = {} THEN <<>> ELSE <<Least(S)>> \o SortedSeq(S \ {Least(S)})
getAll(data) == SortedSeq(storeIds(data))

Range(seq) == {seq[i] : i \in 1..Len(seq)}

\* generateNextId(allData) on the ids of allData (all numeric): the first of
\* 1..length that no item has, or max + 1.
generateNextId(allData) ==
  LET n == Len(allData)
      gaps == {i \in 1..n : i \notin Range(allData)}
  IN IF n = 0 THEN 1
     ELSE IF gaps # {} THEN Least(gaps)
     ELSE Greatest(Range(allData)) + 1

\* Id generation that looks at the stored records only.
currentDataStoredOnly(allDataInStore, itemsToAdd) == allDataInStore

\* const currentDataForIdGen = [...allDataInStore, ...itemsToAdd]
currentDataForIdGen(allDataInStore, itemsToAdd) == allDataInStore \o itemsToAdd

\* The loop of addManyToStore that gives every item its targetId; the result
\* is itemsToAdd (its ids).
RECURSIVE assignIds(_, _, _)
assignIds(allDataInStore, items, itemsToAdd) ==
  IF items = <<>> THEN itemsToAdd
  ELSE LET item == Head(items)
           targetId ==
             IF isValidId(item) THEN IdOf(item)
             ELSE generateNextId(currentDataForIdGen(allDataInStore, itemsToAdd))
       IN assignIds(allDataInStore, Tail(items), Append(itemsToAdd, targetId))

\* The store after the first n puts (or deletes) of a batch by operation w.
RECURSIVE putAll(_, _, _, _)
putAll(data, ids, n, w) ==
  IF n = 0 THEN data ELSE storePut(putAll(data, ids, n - 1, w), ids[n], w)
RECURSIVE deleteAll(_, _, _)
deleteAll(data, ids, n) ==
  IF n = 0 THEN data ELSE storeDelete(deleteAll(data, ids, n - 1), ids[n])

\* The sequences of 1..MaxBatch items a batch call is given.
ItemSeqs(S) == UNION {[1..n -> S] : n \in 1..MaxBatch}

\* The operations of one record: saveDataToStore (add and save),
\* updateDataByIdInStore, deleteDataFromStore, delete (of the manager and of
\* a store proxy), getDataByIdFromStore; and clearStore.
SingleKinds == {"save", "update", "deleteData", "delete", "get"}
BatchKinds == {"addMany", "updateMany", "deleteMany"}
SingleRequests ==
  [kind : {"save"}, items : {<<it>> : it \in Items}]
    \cup [kind : {"update", "deleteData", "delete", "get"},
         items : {<<{i}>> : i \in Ids}]
BatchRequests ==
  [kind : {"addMany"}, items : ItemSeqs(Items)]
    \cup [kind : {"updateMany", "deleteMany"},
         items : ItemSeqs({{i} : i \in Ids})]
ClearRequest == [kind |-> "clear", items |-> <<>>]

\* How a Transaction Context ends: it commits, or openDatabase fails, the
\* store is absent, db.transaction throws, a request of the callback answers
\* with an error event, or the engine fires error or abort.  When the error
\* event reaches transaction.onerror, transaction.error is still null, or
\* the engine has set it to the error of the request ("...ErrorSet", as the
\* engine the tests run on does).  A request that fails by throwing (put or
\* delete of a value that is no key) ends it as "requestThrew", and as
\* "requestThrewPending" when other requests of the callback are pending.
TxOutcomes == {"commit", "openFailed", "notFound", "startFailed",
               "requestFailed", "requestFailedErrorSet", "engineError",
               "engineErrorSet", "engineAbort"}
\* A request of the callback answers with an error event.
RequestFailed(outcome) ==
  outcome \in {"requestFailed", "requestFailedErrorSet"}
\* request.error of a failed request
RequestError == "RequestError"
\* The DataError put and delete throw on a value that is no key.
DataError == "DataError"

NoResult == [state |-> "pending", value |-> Undefined]
NoOp == [kind |-> "none", items |-> <<>>, pc |-> "idle", ids |-> <<>>,
         isUpdate |-> <<>>, outcome |-> "none", tx |-> 0,
         emitted |-> <<>>, result |-> NoResult]

\* No data operation is in progress.
OpsIdle ==
  /\ content = {}
  /\ content0 = {}
  /\ now = Epoch
  /\ ops = [p \in OpProcs |-> NoOp]

\* ------------------------------------------------------ upgrade: values
\* The stores a schema may declare or a database may hold, and their indexes.
SchemaStores == {"users", "posts"}
IndexNames == {"byName", "byDate"}
\* A schema: each store it declares, with the set of its indexes.
Layouts == UNION {[S -> SUBSET IndexNames] : S \in SUBSET SchemaStores}
NoLayout == CHOOSE f \in Layouts : DOMAIN f = {}
\* A stored database: each store it has, with its indexes and the ids of its
\* records.
StoredLayouts ==
  UNION {[S -> [indexes : SUBSET IndexNames, records : SUBSET Ids]] :
           S \in SUBSET SchemaStores}

\* No upgrade is in progress.
UpgradeIdle ==
  /\ stores = NoLayout
  /\ schema = NoLayout
  /\ upgraded = FALSE
  /\ upgradeError = FALSE

\* ---------------------------------------- identifiers and records: values
\* Largest number of records the store holds.
MaxRecords == 2

\* A JavaScript value given as an id: a finite number, -Infinity, NaN, a
\* string (the sequence of its characters) or undefined. A finite number is
\* known by its value where that is small, and by its decimal digits where
\* it is above Number.MAX_SAFE_INTEGER.
Num(n) == [type |-> "number", v |-> n]
Above(digits) == [type |-> "number", digits |-> digits]
NegInfinity == [type |-> "number", infinite |-> "-"]
NaN == [type |-> "number", nan |-> TRUE]
Str(chars) == [type |-> "string", chars |-> chars]
NoId == [type |-> "undefined"]

\* The characters of the strings: a space, the digits 1 and 2, a letter, the
\* word -Infinity and a numeral of 2^53, the first integer above
\* Number.MAX_SAFE_INTEGER, with its sign and its decimal point (each of the
\* two taken as one character): no digit can stand before the sign, and the
\* digits after the point are a fraction too small to change the number.
\* String() of that number gives its bare digits, which the strings hold
\* only as a whole.
Digits == {"1", "2"}
AboveMaxDigits == "+9007199254740992."
BareDigits == "9007199254740992"
DigitValue(ch) == IF ch = "1" THEN 1 ELSE 2

\* String.prototype.trim
RECURSIVE trimStart(_)
trimStart(chars) ==
  IF chars # <<>> /\ Head(chars) = " " THEN trimStart(Tail(chars)) ELSE chars
RECURSIVE trimEnd(_)
trimEnd(chars) ==
  IF chars # <<>> /\ chars[Len(chars)] = " "
  THEN trimEnd(SubSeq(chars, 1, Len(chars) - 1))
  ELSE chars
trim(chars) == trimEnd(trimStart(chars))

\* The value of a string of decimal digits.
RECURSIVE decimal(_)
decimal(chars) ==
  IF chars = <<>> THEN 0
  ELSE 10 * decimal(SubSeq(chars, 1, Len(chars) - 1))
         + DigitValue(chars[Len(chars)])

\* Number(trimmedId), of a trimmed string that is not empty
Number(chars) ==
  IF chars = <<"-Infinity">> THEN NegInfinity
  ELSE IF \A i \in 1..Len(chars) : chars[i] \in Digits THEN Num(decimal(chars))
  ELSE IF chars = <<BareDigits>> THEN Above(<<BareDigits>>)
  ELSE IF /\ chars # <<>>
          /\ Head(chars) = AboveMaxDigits
          /\ \A i \in 2..Len(chars) : chars[i] \in Digits
  THEN Above(<<BareDigits>>)
  ELSE NaN

\* String(id), of a number above Number.MAX_SAFE_INTEGER
String(x) == Str(x.digits)

isNaN(x) == x = NaN
\* Number.isFinite(x), of a number
isFinite(x) == "v" \in DOMAIN x \/ "digits" \in DOMAIN x
\* x > Number.MAX_SAFE_INTEGER: false of NaN and of -Infinity, and false of
\* the finite numbers known by their value, which are small.
aboveMaxSafeInteger(x) == "digits" \in DOMAIN x

\* isValidId(id), of the value given as id
isValidIdValue(id) ==
  IF id.type = "undefined" THEN FALSE
  ELSE IF id.type = "string" THEN trim(id.chars) # <<>>
  ELSE isFinite(id)

\* A normalization that gives the number read from a string also where that
\* number is above Number.MAX_SAFE_INTEGER.
normalizeIdToNumber(id) ==
  IF id.type = "string"
  THEN LET trimmedId == trim(id.chars)
           numValue == Number(trimmedId)
       IN IF trimmedId = <<>> THEN id
          ELSE IF ~isNaN(numValue) THEN numValue
          ELSE Str(trimmedId)
  ELSE IF id.type = "number"
  THEN IF aboveMaxSafeInteger(id) THEN String(id) ELSE id
  ELSE id

\* normalizeId(id)
normalizeId(id) ==
  IF id.type = "string"
  THEN LET trimmedId == trim(id.chars)
           numValue == Number(trimmedId)
       IN IF trimmedId = <<>> THEN id
          ELSE IF ~isNaN(numValue)
          THEN IF aboveMaxSafeInteger(numValue) THEN Str(trimmedId) ELSE numValue
          ELSE Str(trimmedId)
  ELSE IF id.type = "number"
  THEN IF aboveMaxSafeInteger(id) THEN String(id) ELSE id
  ELSE id

\* The value true, which JSON can carry as an id.
True == [type |-> "boolean"]

\* Whether the engine takes a value as a key: put and delete throw a
\* DataError on undefined, on NaN and on a boolean.
validKey(k) == k.type \in {"number", "string"} /\ ~isNaN(k)

\* The ids given to the calls.
ValidIdValues == {Num(1), Str(<<"1">>), Str(<<"a", " ">>), Str(<<"-Infinity">>)}
InvalidIdValues == {NegInfinity, Str(<<" ">>), NoId}
IdValues == ValidIdValues \cup InvalidIdValues
\* The ids given in the items of a batch call.
BatchIdValues == {Num(1), Str(<<"1">>), Str(<<"a", " ">>), NoId}

\* The fields of a record other than its id; an absent field is undefined.
FieldValues == [name : {"n1", "n2"}, value : {Undefined, "v1"}]
\* The fields of the items of a batch call.
BatchFields == [name |-> "n2", value |-> Undefined]

\* A record as the calls return it, and null.
Record(key, fields) == [id |-> key, fields |-> fields]
NoRecord == [type |-> "null"]

\* { ...a, ...b }: the fields of b that are there override those of a.
spread(a, b) ==
  [f \in DOMAIN a |-> IF b[f] # Undefined THEN b[f] ELSE a[f]]

\* request.result of store.get(key): the record of that key, or undefined.
storeGet(data, key) ==
  IF storeHas(data, key)
  THEN LET r == CHOOSE r \in data : r[1] = key IN Record(r[1], r[2])
  ELSE NoId

\* The calls: of one record (save, get, updateDataByIdInStore as update, the
\* manager's update, deleteDataFromStore as deleteData, delete) and of a batch.
RecordRequests ==
  [kind : {"save"}, ids : {<<i>> : i \in ValidIdValues}, fields : FieldValues]
    \cup [kind : {"update", "managerUpdate"}, ids : {<<i>> : i \in IdValues},
          fields : FieldValues]
    \cup [kind : {"get", "deleteData", "delete"}, ids : {<<i>> : i \in IdValues},
          fields : {BatchFields}]
    \cup [kind : {"addMany"}, ids : ItemSeqs(BatchIdValues \ {NoId}),
          fields : {BatchFields}]
    \cup [kind : {"updateMany", "deleteMany"}, ids : ItemSeqs(BatchIdValues),
          fields : {BatchFields}]

Resolved(v) == [state |-> "resolved", value |-> v]
Rejected(e) == [state |-> "rejected", value |-> e]
\* new Error("Invalid ID provided for update"), ...("... for deletion")
InvalidIdForUpdate == "Invalid ID provided for update"
InvalidIdForDeletion == "Invalid ID provided for deletion"
\* new Error(`Item with id ${item.id} not found`)
ItemNotFound == "Item with id not found"

\* No call was made while another call waited between its two transactions.
NoOther == [kind |-> "none", pc |-> "idle"]

\* A call: before is the store as its last transaction found it, isUpdate
\* what its idExistsInStore answered, other the call made meanwhile.
NoCall == [pc |-> "idle", kind |-> "none", ids |-> <<>>,
           fields |-> BatchFields, outcome |-> "none", before |-> {},
           tx |-> 0, emitted |-> <<>>, result |-> NoResult,
           isUpdate |-> FALSE, other |-> NoOther]

\* No call with its records is in progress.
RecordsIdle ==
  /\ table = {}
  /\ call = NoCall

\* ------------------------------------------------ several stores: values
\* A configuration: { name, version, store }.
Config(name, version, store) ==
  [name |-> name, version |-> version, store |-> store]
\* The configuration the constructor derives from a schema: its store is
\* the first store of the schema.
SchemaConfig ==
  Config(Str(<<"d", "b">>), Num(ConfigVersion), Str(<<"users">>))
\* The store the manager's own methods work on: this.dbConfig.store.
DefaultStore(config) == config.store.chars[1]

\* The mutating calls, on the manager (its default store: saveData,
\* updateDataById, deleteData, clearDatabase) or on the proxy of a store
\* (add, update, delete, clear).
MutationKinds == {"save", "update", "deleteData", "clear"}
MutationRequests ==
  [via : {"manager", "proxy"}, store : SchemaStores, kind : MutationKinds,
   id : Ids]
\* A call: before is the stores as its last transaction found them,
\* isUpdate what its idExistsInStore answered, other the call made meanwhile.
NoMutation == [pc |-> "idle", via |-> "none", store |-> "none",
               kind |-> "none", id |-> 0, outcome |-> "none",
               before |-> [s \in SchemaStores |-> {}], emitted |-> <<>>,
               result |-> NoResult, isUpdate |-> FALSE, other |-> NoOther]

\* ------------------------------------------------- configuration: values
\* Largest number of connections the engine opens for the manager.
MaxOpens == 2

\* The values setDatabase is given: null, configurations of one store whose
\* name, version or store may be blank, absent or of another type, and
\* schemas, whose stores are given by their names.
NullConfig == [type |-> "null"]
DirectConfigs ==
  [name : {Str(<<"d", "b">>), Str(<<" ">>), NoId},
   version : {Num(0), Num(2), Str(<<"1">>)},
   store : {Str(<<"posts">>), Str(<<>>)}]
SchemaConfigs ==
  [name : {Str(<<"d", "b">>), Str(<<" ">>)},
   version : {Num(0), Num(2)},
   stores : {<<>>, <<Str(<<"posts">>)>>, <<Str(<<" ">>)>>}]
ConfigValues == {NullConfig} \cup DirectConfigs \cup SchemaConfigs

\* typeof x === 'string' && x.trim() !== ''
nonBlankString(x) == x.type = "string" /\ trim(x.chars) # <<>>
\* typeof x === 'number' && x > 0
positiveNumber(x) == x.type = "number" /\ isFinite(x) /\ x.v > 0

\* validateDatabaseConfig(config), of an object
validateDatabaseConfig(config) ==
  /\ nonBlankString(config.name)
  /\ positiveNumber(config.version)
  /\ nonBlankString(config.store)

\* validateStoreSchema(storeConfig), of a store given by its name
validateStoreSchema(storeConfig) == nonBlankString(storeConfig)

\* validateDatabaseSchema(schema), of an object
validateDatabaseSchema(config) ==
  /\ nonBlankString(config.name)
  /\ positiveNumber(config.version)
  /\ config.stores # <<>>
  /\ \A i \in 1..Len(config.stores) : validateStoreSchema(config.stores[i])

\* validateAnyDatabaseConfig(config)
validateAnyDatabaseConfig(config) ==
  IF config = NullConfig THEN FALSE
  ELSE IF "stores" \in DOMAIN config THEN validateDatabaseSchema(config)
  ELSE validateDatabaseConfig(config)

\* new Error('Invalid database configuration provided')
InvalidConfigProvided == "Invalid database configuration provided"

\* No call of setDatabase is in progress; request is the open request a
\* call waits for.
NoSetCall == [pc |-> "idle", config |-> NullConfig, result |-> NoResult,
              request |-> 0]

\* The manager as constructed, with no connection.
ConfigIdle ==
  /\ dbConfig = SchemaConfig
  /\ thisDb = 0
  /\ closedDbs = {}
  /\ setCall = NoSetCall

\* No call on the stores of a schema is in progress.
MultiIdle ==
  /\ ConfigIdle
  /\ collections = [s \in SchemaStores |-> {}]
  /\ mutation = NoMutation

\* ------------------------------------------------------ listeners: values
\* The most callbacks registered for one event.
MaxListeners == 2

\* The events the manager emits that listeners are registered for.
EventNames == {"add", "delete"}

\* The functions the application registers: two listeners, told apart by
\* identity as indexOf tells them apart.
Callbacks == {"listener", "other"}

\* const onceCallback = (data) => { callback(data); this.off(event,
\* onceCallback) }: the function once registers for a callback, and the
\* callback of such a function.
onceCallback(callback) ==
  IF callback = "listener" THEN "onceCallback(listener)"
  ELSE "onceCallback(other)"
OnceCallbacks == {onceCallback(c) : c \in Callbacks}
CallbackOf(registered) ==
  IF registered \in OnceCallbacks
  THEN CHOOSE c \in Callbacks : onceCallback(c) = registered
  ELSE registered

\* off(event) called without a callback.
NoCallback == "undefined"

\* private events: EventMap = {}; an event with no entry has no callbacks,
\* as an event whose array is empty.
NoEvents == [e \in EventNames |-> <<>>]

NoEmitterCall == [op |-> "none", event |-> "add", callback |-> NoCallback,
                  throwing |-> {}, emitting |-> {}, invoked |-> <<>>,
                  nested |-> <<>>, caught |-> <<>>, before |-> NoEvents]

\* The emitter as constructed: nothing registered, nothing called.
\* The most listeners the global emitter holds while the manager uses
\* another one.
MaxAside == 1

\* this.emitterInstance = emitter: the manager uses the global emitter;
\* aside are the listeners of the global emitter while the manager uses an
\* emitter of its own.
GlobalEmitter == [is |-> "emitter", aside |-> NoEvents]

EmitterIdle ==
  /\ events = NoEvents
  /\ emitterCall = NoEmitterCall
  /\ emitterInstance = GlobalEmitter

\* ------------------------------------------------------ utilities: values
\* The longest string given to normalizeId.
MaxIdLen == 3

\* The identifiers given to normalizeId: numbers, among them one above
\* Number.MAX_SAFE_INTEGER, and the strings of at most MaxIdLen characters.
IdChars == {" ", "1", "a", "-Infinity", AboveMaxDigits}
IdStrings == UNION {[1..n -> IdChars] : n \in 0..MaxIdLen}
Identifiers ==
  {Num(1), Num(12), NegInfinity, Above(<<BareDigits>>)}
    \cup {Str(chars) : chars \in IdStrings}

\* No function of the library is being followed.
NoCalc == [fn |-> "none"]

\* The items of the data given to importDataToDatabase: with an id the
\* engine takes as a key, with an id it does not, and without id.
ImportItems == [id : {Num(1), Num(2), True, NoId}]
\* The data: at most MaxBatch items.
ImportData == UNION {[1..n -> ImportItems] : n \in 0..MaxBatch}
\* The options: clearBefore and validate.
ImportOptions == [clearBefore : BOOLEAN, validate : BOOLEAN]
\* The ids of the records the store may hold before the import.
StoredIds == {Num(1), Num(9)}

\* No import is in progress.
NoImport == [pc |-> "idle", data |-> <<>>,
             options |-> [clearBefore |-> TRUE, validate |-> TRUE],
             promise |-> "pending", resolves |-> 0, total |-> 0,
             completed |-> 0, issued |-> <<>>, answered |-> 0,
             failed |-> FALSE]

UtilIdle ==
  /\ calc = NoCalc
  /\ requests = <<>>
  /\ importCall = NoImport
  /\ importStore = [exists |-> TRUE, older |-> FALSE, stored |-> {},
                    working |-> {}, txn |-> "none"]

TypeOK ==
  /\ db \in {NoDb, OpenDb}
  /\ openCall \in {"idle", "opening", "resolved", "rejected"}
  /\ engineVersion \in 0..ConfigVersion
  /\ objectStoreNames \subseteq StoreNames
  /\ storeData \in [StoreNames -> [Keys -> 0..NCalls]]
  /\ pc \in [Calls -> {"idle", "opening", "gotDb", "inTx", "done"}]
  /\ args \in [Calls -> CallArgs]
  /\ conn \in [Calls -> {NoConn, "current", "replaced", "closed"}]
  /\ \A c \in Calls :
       uow[c].st \in {"notRun", "running", "returned", "threw", "failed"}
  /\ hasAbort \in BOOLEAN

Init ==
  /\ db = NoDb
  /\ engineVersion = 0
  /\ objectStoreNames = {}
  /\ storeData = [s \in StoreNames |-> [k \in Keys |-> 0]]
  /\ pc = [c \in Calls |-> "idle"]
  /\ openCall = "idle"
  /\ args = [c \in Calls |-> NoArgs]
  /\ conn = [c \in Calls |-> NoConn]
  /\ ctx = [c \in Calls |-> NewCtx]
  /\ uow = [c \in Calls |-> UowNotRun]
  /\ txn = [c \in Calls |-> NoTxn]
  /\ hasAbort \in BOOLEAN
  /\ OpsIdle
  /\ UpgradeIdle
  /\ RecordsIdle
  /\ MultiIdle
  /\ EmitterIdle
  /\ UtilIdle

\* --------------------------------------------------------------- manager
\* executeTransaction is called: const db = await this.openDatabase().
\* openDatabase returns this.db when it is set and issues indexedDB.open
\* otherwise.
StartCall(c, a) ==
  /\ pc[c] = "idle"
  /\ \A d \in Calls : d < c => pc[d] # "idle"
  /\ args' = [args EXCEPT ![c] = a]
  /\ IF db # NoDb
     THEN /\ conn' = [conn EXCEPT ![c] = "current"]
          /\ pc' = [pc EXCEPT ![c] = "gotDb"]
     ELSE /\ pc' = [pc EXCEPT ![c] = "opening"]
          /\ UNCHANGED conn
  /\ UNCHANGED <<db, engineVersion, objectStoreNames, storeData,
                 openCall, ctx, uow, txn, hasAbort>>

\* this.db = request.result: the connection this.db held stays open but is
\* no longer the manager's.
Replaced(k) == IF k = "current" THEN "replaced" ELSE k

\* this.db.close(); this.db = null
Closed(k) == IF k = "current" THEN "closed" ELSE k

\* The application calls openDatabase() itself.
OpenDatabaseCall ==
  /\ openCall = "idle"
  /\ openCall' = IF db # NoDb THEN "resolved" ELSE "opening"
  /\ UNCHANGED <<db, engineVersion, objectStoreNames, storeData,
                 pc, args, conn, ctx, uow, txn, hasAbort>>

\* indexedDB.open has been called for r and the request is still pending.
OpenPending(r) ==
  IF r = ExplicitOpen THEN openCall = "opening" ELSE pc[r] = "opening"

\* The open requests in flight.
OpenRequests == {r \in Requests : OpenPending(r)}

\* request.onupgradeneeded of open request r: the stored version is older
\* than dbConfig.version; the configured store is created if absent.
UpgradeNeeded(r) ==
  /\ OpenPending(r)
  /\ engineVersion < ConfigVersion
  /\ engineVersion' = ConfigVersion
  /\ objectStoreNames' = objectStoreNames \cup {DbConfigStore}
  /\ UNCHANGED <<db, storeData, pc, openCall, args, conn, ctx,
                 uow, txn, hasAbort>>

\* request.onsuccess of open request r: this.db = request.result; resolve.
OpenSuccess(r) ==
  /\ OpenPending(r)
  /\ engineVersion = ConfigVersion
  /\ db' = OpenDb
  /\ conn' = [c \in Calls |-> IF c = r THEN "current" ELSE Replaced(conn[c])]
  /\ IF r = ExplicitOpen
     THEN /\ openCall' = "resolved"
          /\ UNCHANGED pc
     ELSE /\ pc' = [pc EXCEPT ![r] = "gotDb"]
          /\ UNCHANGED openCall
  /\ UNCHANGED <<engineVersion, objectStoreNames, storeData,
                 args, ctx, uow, txn, hasAbort>>

\* request.onerror of open request r: a connection the manager holds by then
\* is closed and dropped, and the caller's promise rejects.
OpenFailure(r) ==
  /\ OpenPending(r)
  /\ conn' = [c \in Calls |-> Closed(conn[c])]
  /\ db' = NoDb
  /\ IF r = ExplicitOpen
     THEN /\ openCall' = "rejected"
          /\ UNCHANGED <<pc, ctx>>
     ELSE /\ ctx' = [ctx EXCEPT ![r] = reject(@, OpenError)]
          /\ pc' = [pc EXCEPT ![r] = "done"]
          /\ UNCHANGED openCall
  /\ UNCHANGED <<engineVersion, objectStoreNames, storeData, args, uow, txn,
                 hasAbort>>

\* close()
Close ==
  /\ db # NoDb
  /\ conn' = [c \in Calls |-> Closed(conn[c])]
  /\ db' = NoDb
  /\ UNCHANGED <<engineVersion, objectStoreNames, storeData, pc, openCall,
                 args, ctx, uow, txn, hasAbort>>

\* The writes a read-write callback issues on its store.
UowWrites(c) ==
  IF args[c].mode = "readwrite" THEN {<<k, c>> : k \in Keys} ELSE {}

\* db.transaction(storeName, mode), with the requests the callback places.
NewTxn(c) == [state |-> "active", abortRequested |-> FALSE,
              writes |-> UowWrites(c), error |-> Null]

\* The executor of the promise executeTransaction returns (lines 897-970),
\* run once openDatabase has resolved: the store check, db.transaction, the
\* handlers, and the synchronous call of the callback, which issues its
\* writes and then returns (a value or a pending value) or throws.
BeginTransaction(c) ==
  /\ pc[c] = "gotDb"
  /\ \/ /\ StoreMissing(args[c].storeName)
        /\ ctx' = [ctx EXCEPT ![c] = reject(@, NotFoundError)]
        /\ pc' = [pc EXCEPT ![c] = "done"]
        /\ UNCHANGED <<uow, txn>>
     \/ /\ ~StoreMissing(args[c].storeName)
        /\ conn[c] = "closed"
        /\ ctx' = [ctx EXCEPT ![c] = reject(@, TxStartError)]
        /\ pc' = [pc EXCEPT ![c] = "done"]
        /\ UNCHANGED <<uow, txn>>
     \/ /\ ~StoreMissing(args[c].storeName)
        /\ conn[c] # "closed"
        /\ txn' = [txn EXCEPT ![c] = NewTxn(c)]
        /\ uow' = [uow EXCEPT ![c] = UowRunning]
        /\ pc' = [pc EXCEPT ![c] = "inTx"]
        /\ UNCHANGED ctx
     \/ /\ ~StoreMissing(args[c].storeName)
        /\ conn[c] # "closed"
        /\ \E err \in UowErrors :
             /\ ctx' = [ctx EXCEPT ![c] = syncCatchCtx(@, err)]
             /\ uow' = [uow EXCEPT ![c] = [st |-> "threw", val |-> err]]
        /\ txn' = [txn EXCEPT ![c] = syncCatchTxn(NewTxn(c))]
        /\ pc' = [pc EXCEPT ![c] = "inTx"]
  /\ UNCHANGED <<db, engineVersion, objectStoreNames, storeData,
                 openCall, args, conn, hasAbort>>

\* The callback's value arrives: the .then handler runs.
UowResolve(c, result) ==
  /\ uow[c].st = "running"
  /\ ctx' = [ctx EXCEPT ![c] = thenHandler(@, result)]
  /\ uow' = [uow EXCEPT ![c] = [st |-> "returned", val |-> result]]
  /\ UNCHANGED <<db, engineVersion, objectStoreNames, storeData,
                 pc, openCall, args, conn, txn, hasAbort>>

\* The callback's pending value fails: the .catch handler runs.
UowReject(c, err) ==
  /\ uow[c].st = "running"
  /\ ctx' = [ctx EXCEPT ![c] = catchHandlerCtx(@, err)]
  /\ txn' = [txn EXCEPT ![c] = catchHandlerTxn(@)]
  /\ uow' = [uow EXCEPT ![c] = [st |-> "failed", val |-> err]]
  /\ UNCHANGED <<db, engineVersion, objectStoreNames, storeData,
                 pc, openCall, args, conn, hasAbort>>

\* ---------------------------------------------------------------- engine
\* The store content once the writes of transaction t are committed.
Committed(data, t) ==
  [k \in Keys |-> IF \E w \in t.writes : w[1] = k
                  THEN (CHOOSE w \in t.writes : w[1] = k)[2]
                  ELSE data[k]]

\* The engine commits the transaction of call c and fires oncomplete.
EngineComplete(c) ==
  /\ txn[c].state = "active"
  /\ ~txn[c].abortRequested
  /\ txn' = [txn EXCEPT ![c].state = "committed", ![c].writes = {}]
  /\ storeData' = [storeData EXCEPT
                     ![args[c].storeName] = Committed(@, txn[c])]
  /\ ctx' = [ctx EXCEPT ![c] = oncomplete(@)]
  /\ UNCHANGED <<db, engineVersion, objectStoreNames, pc,
                 openCall, args, conn, uow, hasAbort>>

\* The engine aborts the transaction of call c, on abort() or on its own, and
\* fires onabort; transaction.error is null after abort().
EngineAbort(c, e) ==
  /\ txn[c].state = "active"
  /\ txn[c].abortRequested => e = Null
  /\ txn' = [txn EXCEPT ![c].state = "aborted", ![c].writes = {},
                        ![c].error = e]
  /\ ctx' = [ctx EXCEPT ![c] = onabort(@, txn'[c])]
  /\ UNCHANGED <<db, engineVersion, objectStoreNames, storeData,
                 pc, openCall, args, conn, uow, hasAbort>>

\* An error event of a request reaches the transaction of call c: onerror.
EngineError(c, e) ==
  /\ txn[c].state = "active"
  /\ txn' = [txn EXCEPT ![c].error = e]
  /\ ctx' = [ctx EXCEPT ![c] = onerror(@, txn'[c])]
  /\ UNCHANGED <<db, engineVersion, objectStoreNames, storeData,
                 pc, openCall, args, conn, uow, hasAbort>>

\* A duplicate or late event of a finished transaction.
LateSignal(c, kind) ==
  /\ txn[c].state \in {"committed", "aborted"}
  /\ ctx' = [ctx EXCEPT ![c] =
               CASE kind = "complete" -> oncomplete(@)
                 [] kind = "error" -> onerror(@, txn[c])
                 [] kind = "abort" -> onabort(@, txn[c])]
  /\ UNCHANGED <<db, engineVersion, objectStoreNames, storeData,
                 pc, openCall, args, conn, uow, txn, hasAbort>>

\* The data operations and the upgrade are at rest while the coordinator runs.
AtRest ==
  UNCHANGED <<opsVars, upgradeVars, recordVars, configVars, multiVars,
                 emitterVars, utilVars>>

Next ==
  \/ \E c \in Calls, a \in CallArgs : StartCall(c, a) /\ AtRest
  \/ OpenDatabaseCall /\ AtRest
  \/ \E r \in Requests : UpgradeNeeded(r) /\ AtRest
  \/ \E r \in Requests : OpenSuccess(r) /\ AtRest
  \/ \E r \in Requests : OpenFailure(r) /\ AtRest
  \/ Close /\ AtRest
  \/ \E c \in Calls : BeginTransaction(c) /\ AtRest
  \/ \E c \in Calls, result \in UowResults : UowResolve(c, result) /\ AtRest
  \/ \E c \in Calls, err \in UowErrors : UowReject(c, err) /\ AtRest
  \/ \E c \in Calls : EngineComplete(c) /\ AtRest
  \/ \E c \in Calls, e \in EngineErrors : EngineAbort(c, e) /\ AtRest
  \/ \E c \in Calls, e \in EngineErrors : EngineError(c, e) /\ AtRest
  \/ \E c \in Calls, kind \in {"complete", "error", "abort"} :
       LateSignal(c, kind) /\ AtRest

Spec == Init /\ [][Next]_vars

\* The scheduling the liveness claim assumes: an open request is answered,
\* the continuation of a resolved openDatabase runs, the callback's pending
\* value settles, and the engine delivers a terminal event (complete or abort)
\* for every transaction it created.  Error events, duplicate events and
\* close() may or may not happen.
Fairness ==
  /\ \A r \in Requests :
       WF_vars(/\ UpgradeNeeded(r) \/ OpenSuccess(r) \/ OpenFailure(r)
               /\ AtRest)
  /\ \A c \in Calls :
       /\ WF_vars(BeginTransaction(c) /\ AtRest)
       /\ WF_vars(/\ \/ \E result \in UowResults : UowResolve(c, result)
                     \/ \E err \in UowErrors : UowReject(c, err)
                  /\ AtRest)
       /\ WF_vars(/\ \/ EngineComplete(c)
                     \/ \E e \in EngineErrors : EngineAbort(c, e)
                  /\ AtRest)

LiveSpec == Spec /\ Fairness

\* ------------------------------------------------------- data operations
\* The coordinator and the connection at rest, on an engine whose transaction
\* handles offer abort.
CoreIdle ==
  /\ db = NoDb
  /\ engineVersion = 0
  /\ objectStoreNames = {}
  /\ storeData = [s \in StoreNames |-> [k \in Keys |-> 0]]
  /\ pc = [c \in Calls |-> "idle"]
  /\ openCall = "idle"
  /\ args = [c \in Calls |-> NoArgs]
  /\ conn = [c \in Calls |-> NoConn]
  /\ ctx = [c \in Calls |-> NewCtx]
  /\ uow = [c \in Calls |-> UowNotRun]
  /\ txn = [c \in Calls |-> NoTxn]
  /\ hasAbort = TRUE

\* A transaction the callback is running in.
ActiveTxn == [NoTxn EXCEPT !.state = "active"]

\* executeTransaction(storeName, mode, callback) from call to settlement, for
\* each way the Transaction Context can end; result is what the callback
\* resolves with.  The value is the promise's final state.
executeTransaction(outcome, result) ==
  CASE outcome = "commit" -> oncomplete(thenHandler(NewCtx, result))
    [] outcome = "openFailed" -> reject(NewCtx, OpenError)
    [] outcome = "notFound" -> reject(NewCtx, NotFoundError)
    [] outcome = "startFailed" -> reject(NewCtx, TxStartError)
    [] outcome = "requestFailed" ->
         \* the error event of the request reaches transaction.onerror,
         \* transaction.error being null until the transaction has aborted
         onabort(onerror(catchHandlerCtx(NewCtx, RequestError), ActiveTxn),
                 catchHandlerTxn(ActiveTxn))
    [] outcome = "requestFailedErrorSet" ->
         onabort(onerror(catchHandlerCtx(NewCtx, RequestError),
                         [ActiveTxn EXCEPT !.error = RequestError]),
                 catchHandlerTxn([ActiveTxn EXCEPT !.error = RequestError]))
    [] outcome = "requestThrew" ->
         onabort(catchHandlerCtx(NewCtx, DataError), catchHandlerTxn(ActiveTxn))
    [] outcome = "requestThrewPending" ->
         \* transaction.abort() of the .catch handler answers the pending
         \* requests with an error event, which reaches transaction.onerror
         onabort(onerror(catchHandlerCtx(NewCtx, DataError),
                         catchHandlerTxn(ActiveTxn)),
                 catchHandlerTxn(ActiveTxn))
    [] outcome = "engineError" -> onerror(NewCtx, ActiveTxn)
    [] outcome = "engineErrorSet" ->
         onerror(NewCtx, [ActiveTxn EXCEPT !.error = RequestError])
    [] outcome = "engineAbort" ->
         onabort(thenHandler(NewCtx, result),
                 [ActiveTxn EXCEPT !.error = "EngineError"])

\* Whether the callback ran to its end (all its requests succeeded).
callbackRan(outcome) == outcome \in {"commit", "engineAbort"}

\* How many of the n requests of a callback succeeded, the k-th being the one
\* that fails when a request fails.
requestsDone(outcome, n, k) ==
  IF callbackRan(outcome) THEN n
  ELSE IF RequestFailed(outcome) THEN k - 1
  ELSE 0

\* A transaction whose abort leaves the requests it has executed in the store.
visibleWithoutRollback(outcome, before, written) == written

\* The store once the transaction has ended: what its requests wrote when it
\* committed, what was there before when it aborted.
visibleAfter(outcome, before, written) ==
  IF outcome = "commit" THEN written ELSE before

\* A single-record operation that reports a failure as null.
singleResultSwallowed(kind, c) ==
  IF c.state = "resolved" \/ kind = "delete"
  THEN [state |-> "resolved",
        value |-> IF kind # "delete" THEN c.value
                  ELSE IF c.state = "resolved" THEN "true" ELSE "false"]
  ELSE [state |-> "resolved", value |-> Null]

\* What a single-record operation gives its caller when executeTransaction
\* has settled as c: delete (manager and store proxy) answers true or false,
\* the others pass the settlement on.
singleResult(kind, c) ==
  IF kind = "delete"
  THEN [state |-> "resolved",
        value |-> IF c.state = "resolved" THEN "true" ELSE "false"]
  ELSE [state |-> c.state, value |-> c.value]

\* A batch operation without its .catch.
batchResultUncaught(c) ==
  IF c.state = "resolved" THEN [state |-> "resolved", value |-> "true"]
  ELSE [state |-> "rejected", value |-> c.value]

\* .then(success => ... return true).catch(err => ... return false)
batchResult(c) ==
  [state |-> "resolved",
   value |-> IF c.state = "resolved" THEN "true" ELSE "false"]

\* A batch that notifies of its first item only.
emitFirstOnly(kind, ids, isUpdate) ==
  IF ids = <<>> THEN <<>>
  ELSE <<(<<IF kind = "deleteMany" THEN "delete"
            ELSE IF kind = "updateMany" \/ isUpdate[1] THEN "update"
            ELSE "add", ids[1]>>)>>

\* itemsToEmit.forEach(item => this.emitEvent(...)): one event per item.
emitBatch(kind, ids, isUpdate) ==
  [i \in 1..Len(ids) |->
     <<IF kind = "deleteMany" THEN "delete"
       ELSE IF kind = "updateMany" \/ isUpdate[i] THEN "update"
       ELSE "add", ids[i]>>]

\* An operation is called.  save with an explicit id and update first ask
\* idExistsInStore; save without id draws Date.now() + random.
OpStart(p, req) ==
  /\ ops[p].pc = "idle"
  /\ LET ids == [i \in 1..Len(req.items) |->
                   IF isValidId(req.items[i]) THEN IdOf(req.items[i]) ELSE 0]
         o == [NoOp EXCEPT !.kind = req.kind, !.items = req.items]
     IN IF req.kind = "save" /\ ~isValidId(req.items[1])
        THEN \E t \in now..(Epoch + MaxTicks), r \in 0..MaxRandom :
               /\ now' = t
               /\ ops' = [ops EXCEPT ![p] =
                            [o EXCEPT !.ids = <<t + r>>, !.isUpdate = <<FALSE>>,
                                      !.pc = "write"]]
        ELSE /\ ops' = [ops EXCEPT ![p] =
                          [o EXCEPT !.ids = IF req.kind = "addMany" THEN <<>>
                                            ELSE ids,
                                    !.pc = IF req.kind \in {"save", "update"}
                                           THEN "check" ELSE "write"]]
             /\ UNCHANGED now
  /\ UNCHANGED <<content, content0, coreVars, upgradeVars, recordVars, configVars,
               multiVars,
                 emitterVars, utilVars>>

\* idExistsInStore(storeName, id): a read-only Transaction Context of its own.
IdExists(p, outcome) ==
  /\ ops[p].pc = "check"
  /\ LET o == ops[p]
         exists == storeHas(content, o.ids[1])
         c == executeTransaction(outcome, IF exists THEN "true" ELSE "false")
         q == [o EXCEPT !.tx = @ + 1, !.outcome = outcome]
     IN ops' = [ops EXCEPT ![p] =
          IF c.state # "resolved"
          THEN [q EXCEPT !.pc = "done",
                         !.result = [state |-> "rejected", value |-> c.value]]
          ELSE IF o.kind = "update" /\ ~exists
          THEN [q EXCEPT !.pc = "done",
                         !.result = [state |-> "resolved", value |-> Null]]
          ELSE [q EXCEPT !.pc = "write", !.isUpdate = <<exists>>]]
  /\ UNCHANGED <<content, content0, now, coreVars, upgradeVars, recordVars, configVars,
               multiVars,
                 emitterVars, utilVars>>

\* The Transaction Context in which an operation reads and writes, and what
\* the operation does once executeTransaction has settled.
RunTransaction(p, outcome, k) ==
  /\ ops[p].pc = "write"
  /\ LET o == ops[p]
         kind == o.kind
         ids == IF kind = "addMany"
                THEN assignIds(getAll(content), o.items, <<>>)
                ELSE o.ids
         isUpdate == IF kind = "addMany"
                     THEN [i \in 1..Len(ids) |->
                             isValidId(o.items[i]) /\ storeHas(content, ids[i])]
                     ELSE o.isUpdate
         found == kind \in {"update", "get"} /\ storeHas(content, ids[1])
         putOk == kind # "save" \/ storePutOk(content, ids[1])
         how == IF outcome = "commit" /\ ~putOk THEN "requestFailed" ELSE outcome
         n == requestsDone(how, Len(ids), k)
         written ==
           CASE kind \in {"save", "addMany", "updateMany"} ->
                  putAll(content, ids, n, p)
             [] kind = "update" ->
                  IF found THEN putAll(content, ids, n, p) ELSE content
             [] kind \in {"deleteData", "delete", "deleteMany"} ->
                  deleteAll(content, ids, n)
             [] kind = "clear" -> IF callbackRan(how) THEN {} ELSE content
             [] kind = "get" -> content
         value ==
           CASE kind \in {"save"} -> "record"
             [] kind \in {"update", "get"} -> IF found THEN "record" ELSE Null
             [] kind \in {"deleteData", "delete"} -> "id"
             [] kind = "clear" -> Undefined
             [] kind \in BatchKinds -> "true"
         c == executeTransaction(how, value)
         emitted ==
           CASE kind = "save" ->
                  IF c.state = "resolved"
                  THEN <<(<<IF isUpdate[1] THEN "update" ELSE "add", ids[1]>>)>>
                  ELSE <<>>
             [] kind \in {"deleteData", "delete"} ->
                  IF c.state = "resolved" THEN <<(<<"delete", ids[1]>>)>> ELSE <<>>
             [] kind = "update" ->
                  IF found /\ callbackRan(how)
                  THEN <<(<<"update", ids[1]>>)>> ELSE <<>>
             [] kind = "clear" ->
                  IF callbackRan(how) THEN <<(<<"clear", 0>>)>> ELSE <<>>
             [] kind = "get" -> <<>>
             [] kind \in BatchKinds ->
                  IF c.state = "resolved" THEN emitBatch(kind, ids, isUpdate)
                  ELSE <<>>
     IN /\ RequestFailed(outcome) => k \in 1..Len(ids)
        /\ ~RequestFailed(outcome) => k = 1
        /\ RequestFailed(outcome) => kind # "clear"
        /\ content' = visibleAfter(how, content, written)
        /\ ops' = [ops EXCEPT ![p] =
                     [o EXCEPT !.pc = "done", !.tx = @ + 1, !.outcome = outcome,
                               !.ids = ids, !.isUpdate = isUpdate,
                               !.emitted = emitted,
                               !.result = IF kind \in BatchKinds
                                          THEN batchResult(c)
                                          ELSE singleResult(kind, c)]]
  /\ UNCHANGED <<content0, now, coreVars, upgradeVars, recordVars, configVars,
               multiVars,
                 emitterVars, utilVars>>

\* The caller has its answer and issues the next operation.
OpReturn(p) ==
  /\ ops[p].pc = "done"
  /\ ops' = [ops EXCEPT ![p] = NoOp]
  /\ UNCHANGED <<content, content0, now, coreVars, upgradeVars, recordVars, configVars,
               multiVars,
                 emitterVars, utilVars>>

\* The data operations start on a store with some records in it.
OpsInit ==
  /\ CoreIdle
  /\ UpgradeIdle
  /\ RecordsIdle
  /\ MultiIdle
  /\ EmitterIdle
  /\ UtilIdle
  /\ content \in SeededContents
  /\ content0 = content
  /\ now = Epoch
  /\ ops = [p \in OpProcs |-> NoOp]

\* One caller that awaits each operation before it issues the next.
SeqNext ==
  \/ \E req \in SingleRequests \cup BatchRequests \cup {ClearRequest} :
       /\ Cardinality(content) <= Cardinality(Ids)
       /\ OpStart(1, req)
  \/ \E outcome \in TxOutcomes : IdExists(1, outcome)
  \/ \E outcome \in TxOutcomes, k \in 1..MaxBatch :
       RunTransaction(1, outcome, k)
  \/ OpReturn(1)

SeqSpec == OpsInit /\ [][SeqNext]_vars

\* How the Transaction Contexts of concurrent operations end.
ConcOutcomes == {"commit", "engineAbort"}

\* Operations of one record each, issued without awaiting one another.
ConcNext ==
  \/ \E p \in OpProcs, req \in SingleRequests :
       /\ \A q \in OpProcs : q < p => ops[q].pc # "idle"
       /\ OpStart(p, req)
  \/ \E p \in OpProcs, outcome \in ConcOutcomes : IdExists(p, outcome)
  \/ \E p \in OpProcs, outcome \in ConcOutcomes :
       RunTransaction(p, outcome, 1)

ConcSpec == OpsInit /\ [][ConcNext]_vars

\* ------------------------------------------ identifiers and records: calls
\* What a call does: the store it leaves, what it gives its caller, how many
\* engine transactions it started and the notifications it emitted.
Effect(data, result, tx, emitted) ==
  [table |-> data, result |-> result, tx |-> tx, emitted |-> emitted]
Settlement(c) == [state |-> c.state, value |-> c.value]
Notification(event, data) == [event |-> event, data |-> data]

\* idExistsInStore(storeName, id), its read-only transaction committing
idExistsInStore(data, id) == storeGet(data, normalizeId(id)) # NoId

\* The readwrite transaction of saveDataToStore and its .then, on the store
\* as it is then; isUpdate is what idExistsInStore answered before.
savePut(data, id, fields, isUpdate, outcome) ==
  LET targetId == normalizeId(id)
      newData == Record(targetId, fields)
      c == executeTransaction(outcome, newData)
  IN Effect(visibleAfter(outcome, data, storePut(data, targetId, fields)),
            Settlement(c), 2,
            IF c.state = "resolved"
            THEN <<Notification(IF isUpdate THEN "update" ELSE "add", newData)>>
            ELSE <<>>)

\* saveDataToStore(storeName, { ...fields, id }), of a valid id, with no
\* other call between its two transactions
saveDataToStore(data, id, fields, outcome) ==
  savePut(data, id, fields, idExistsInStore(data, normalizeId(id)), outcome)

\* A get that fails on an id that is not valid.
getDataRejectsInvalid(id) == Rejected(InvalidIdForUpdate)

\* if (!isValidId(id)) return null of getDataByIdFromStore
getDataOfInvalid(id) == Resolved(NoRecord)

\* getDataByIdFromStore(storeName, id)
getDataByIdFromStore(data, id, outcome) ==
  IF ~isValidIdValue(id) THEN Effect(data, getDataOfInvalid(id), 0, <<>>)
  ELSE LET found == storeGet(data, normalizeId(id))
           c == executeTransaction(outcome,
                                   IF found # NoId THEN found ELSE NoRecord)
       IN Effect(data, Settlement(c), 1, <<>>)

\* An update that puts the fields it was given in place of the record.
newDataReplaced(old, fields) == fields

\* { ...getRequest.result, ...updatedData, id: normalizedId }
newDataMerged(old, fields) == spread(old, fields)

\* The readwrite transaction of updateDataByIdInStore, on the store as it
\* is then: if (getRequest.result) put and emit, else resolve(null).
updateGetPut(data, id, fields, outcome) ==
  LET normalizedId == normalizeId(id)
      old == storeGet(data, normalizedId)
  IN IF old = NoId
     THEN Effect(data, Settlement(executeTransaction(outcome, NoRecord)), 2,
                 <<>>)
     ELSE LET newData == Record(normalizedId,
                                newDataMerged(old.fields, fields))
              c == executeTransaction(outcome, newData)
          IN Effect(visibleAfter(outcome, data,
                                 storePut(data, normalizedId, newData.fields)),
                    Settlement(c), 2,
                    IF callbackRan(outcome)
                    THEN <<Notification("update", newData)>> ELSE <<>>)

\* updateDataByIdInStore(storeName, id, updatedData), with no other call
\* between its two transactions
updateDataByIdInStore(data, id, fields, outcome) ==
  IF ~isValidIdValue(id) THEN Effect(data, Rejected(InvalidIdForUpdate), 0, <<>>)
  ELSE IF ~idExistsInStore(data, normalizeId(id))
  THEN Effect(data, Resolved(NoRecord), 1, <<>>)
  ELSE updateGetPut(data, id, fields, outcome)

\* if (!result) throw new Error(...) of the manager's update(item)
throwNotFound(e) ==
  IF e.result.state = "resolved" /\ e.result.value = NoRecord
  THEN [e EXCEPT !.result = Rejected(ItemNotFound)]
  ELSE e

\* update(item) of the manager
update(data, id, fields, outcome) ==
  throwNotFound(updateDataByIdInStore(data, id, fields, outcome))

\* deleteDataFromStore(storeName, id)
deleteDataFromStore(data, id, outcome) ==
  IF ~isValidIdValue(id)
  THEN Effect(data, Rejected(InvalidIdForDeletion), 0, <<>>)
  ELSE LET keyId == normalizeId(id)
           c == executeTransaction(outcome, keyId)
       IN Effect(visibleAfter(outcome, data, storeDelete(data, keyId)),
                 Settlement(c), 1,
                 IF c.state = "resolved"
                 THEN <<Notification("delete", keyId)>> ELSE <<>>)

\* delete(id) of the manager and of a store proxy: true, or false when
\* deleteDataFromStore failed.
delete(data, id, outcome) ==
  LET e == deleteDataFromStore(data, id, outcome)
  IN [e EXCEPT !.result =
        Resolved(IF e.result.state = "resolved" THEN "true" ELSE "false")]

\* How the transaction of a batch ends: a put or a delete of a value the
\* engine does not take as a key throws in its promise executor, which fails
\* the callback; the requests of the other values are placed and pending.
batchOutcome(keys, outcome) ==
  IF \A i \in 1..Len(keys) : validKey(keys[i]) THEN outcome
  ELSE IF \E i \in 1..Len(keys) : validKey(keys[i])
  THEN "requestThrewPending"
  ELSE "requestThrew"

\* addManyToStore(storeName, items), of items with valid ids
addManyToStore(data, ids, fields, outcome) ==
  LET targetIds == [i \in 1..Len(ids) |-> normalizeId(ids[i])]
      how == batchOutcome(targetIds, outcome)
      c == executeTransaction(how, "true")
  IN Effect(visibleAfter(how, data, putAll(data, targetIds, Len(ids), fields)),
            batchResult(c), 1,
            IF c.state = "resolved"
            THEN [i \in 1..Len(ids) |->
                    Notification(IF storeHas(data, targetIds[i])
                                 THEN "update" ELSE "add",
                                 Record(targetIds[i], fields))]
            ELSE <<>>)

\* The keys updateManyInStore puts: store.put(item), the id as it was given.
updateManyKeys(ids) == ids

\* updateManyInStore(storeName, items)
updateManyInStore(data, ids, fields, outcome) ==
  LET keys == updateManyKeys(ids)
      how == batchOutcome(keys, outcome)
      c == executeTransaction(how, "true")
  IN Effect(visibleAfter(how, data, putAll(data, keys, Len(ids), fields)),
            batchResult(c), 1,
            IF c.state = "resolved"
            THEN [i \in 1..Len(ids) |->
                    Notification("update", Record(keys[i], fields))]
            ELSE <<>>)

\* A deleteMany that deletes the first listed id only.
deleteManyFirstOnly(ids) == <<normalizeId(ids[1])>>

\* const normalizedIds = ids.map(normalizeId)
deleteManyKeys(ids) == [i \in 1..Len(ids) |-> normalizeId(ids[i])]

\* deleteManyFromStore(storeName, ids)
deleteManyFromStore(data, ids, outcome) ==
  LET normalizedIds == deleteManyKeys(ids)
      how == batchOutcome(normalizedIds, outcome)
      c == executeTransaction(how, "true")
  IN Effect(visibleAfter(how, data,
                         deleteAll(data, normalizedIds, Len(normalizedIds))),
            batchResult(c), 1,
            IF c.state = "resolved"
            THEN [i \in 1..Len(ids) |->
                    Notification("delete", normalizeId(ids[i]))]
            ELSE <<>>)

\* The call req on the store data, its write transaction ending as outcome.
Invoke(data, req, outcome) ==
  CASE req.kind = "save" ->
         saveDataToStore(data, req.ids[1], req.fields, outcome)
    [] req.kind = "get" -> getDataByIdFromStore(data, req.ids[1], outcome)
    [] req.kind = "update" ->
         updateDataByIdInStore(data, req.ids[1], req.fields, outcome)
    [] req.kind = "managerUpdate" ->
         update(data, req.ids[1], req.fields, outcome)
    [] req.kind = "deleteData" -> deleteDataFromStore(data, req.ids[1], outcome)
    [] req.kind = "delete" -> delete(data, req.ids[1], outcome)
    [] req.kind = "addMany" ->
         addManyToStore(data, req.ids, req.fields, outcome)
    [] req.kind = "updateMany" ->
         updateManyInStore(data, req.ids, req.fields, outcome)
    [] req.kind = "deleteMany" -> deleteManyFromStore(data, req.ids, outcome)

\* The calls that await idExistsInStore before their readwrite transaction:
\* saveDataToStore of a valid id, updateDataByIdInStore past its validation.
TwoTransactions(req) ==
  \/ req.kind = "save"
  \/ req.kind \in {"update", "managerUpdate"} /\ isValidIdValue(req.ids[1])

\* A call is made: it runs to its end, or to the answer of idExistsInStore
\* when a readwrite transaction is to follow it.
RecordCall(req, outcome) ==
  /\ call.pc = "idle"
  /\ LET e == Invoke(table, req, outcome)
         isUpdate == idExistsInStore(table, normalizeId(req.ids[1]))
         waits == TwoTransactions(req) /\ (req.kind = "save" \/ isUpdate)
     IN /\ Cardinality(e.table) <= MaxRecords
        /\ table' = IF waits THEN table ELSE e.table
        /\ call' = IF waits
                   THEN [NoCall EXCEPT !.pc = "checked", !.kind = req.kind,
                                       !.ids = req.ids, !.fields = req.fields,
                                       !.before = table, !.tx = 1,
                                       !.isUpdate = isUpdate]
                   ELSE [NoCall EXCEPT !.pc = "done", !.kind = req.kind,
                                       !.ids = req.ids, !.fields = req.fields,
                                       !.outcome = outcome, !.before = table,
                                       !.tx = e.tx, !.emitted = e.emitted,
                                       !.result = e.result]
  /\ UNCHANGED <<coreVars, opsVars, upgradeVars, configVars, multiVars,
                 emitterVars, utilVars>>

\* The calls made while another call waits for its readwrite transaction.
OtherRequests ==
  [kind : {"save", "update", "deleteData"},
   ids : {<<Num(1)>>, <<Str(<<"a", " ">>)>>}, fields : {BatchFields}]

\* Another call is made in the same turn, without awaiting the first: its
\* first transaction was created before the readwrite transaction of the
\* first call and runs before it.  It runs to its end, or to the answer of
\* idExistsInStore when a readwrite transaction is to follow it.
OtherCall(req, outcome) ==
  /\ call.pc = "checked"
  /\ call.other = NoOther
  /\ LET e == Invoke(table, req, outcome)
         isUpdate == idExistsInStore(table, normalizeId(req.ids[1]))
         waits == TwoTransactions(req) /\ (req.kind = "save" \/ isUpdate)
         other == [kind |-> req.kind, ids |-> req.ids, fields |-> req.fields]
     IN /\ Cardinality(e.table) <= MaxRecords
        /\ table' = IF waits THEN table ELSE e.table
        /\ call' = [call EXCEPT !.other =
                      IF waits
                      THEN other @@ [pc |-> "checked", outcome |-> "none",
                                     tx |-> 1, emitted |-> <<>>,
                                     result |-> NoResult,
                                     isUpdate |-> isUpdate]
                      ELSE other @@ [pc |-> "done", outcome |-> outcome,
                                     tx |-> e.tx, emitted |-> e.emitted,
                                     result |-> e.result,
                                     isUpdate |-> FALSE]]
  /\ UNCHANGED <<coreVars, opsVars, upgradeVars, configVars, multiVars,
                 emitterVars, utilVars>>

\* What the readwrite transaction of a waiting call c does on the store
\* data.
WriteOf(data, c, outcome) ==
  CASE c.kind = "save" ->
         savePut(data, c.ids[1], c.fields, c.isUpdate, outcome)
    [] c.kind = "update" -> updateGetPut(data, c.ids[1], c.fields, outcome)
    [] c.kind = "managerUpdate" ->
         throwNotFound(updateGetPut(data, c.ids[1], c.fields, outcome))

\* The readwrite transaction of the other call runs: it was created after
\* that of the first call, and the engine runs the readwrite transactions
\* of a store in the order they were created.
OtherWrite(outcome) ==
  /\ call.pc = "done"
  /\ call.other.pc = "checked"
  /\ LET e == WriteOf(table, call.other, outcome)
     IN /\ Cardinality(e.table) <= MaxRecords
        /\ table' = e.table
        /\ call' = [call EXCEPT !.other =
                      [@ EXCEPT !.pc = "done", !.outcome = outcome,
                                !.tx = e.tx, !.emitted = e.emitted,
                                !.result = e.result]]
  /\ UNCHANGED <<coreVars, opsVars, upgradeVars, configVars, multiVars,
                 emitterVars, utilVars>>

\* The readwrite transaction of the waiting call runs, on the store as it
\* is by now, and the call ends.
RecordWrite(outcome) ==
  /\ call.pc = "checked"
  /\ LET e == WriteOf(table, call, outcome)
     IN /\ Cardinality(e.table) <= MaxRecords
        /\ table' = e.table
        /\ call' = [call EXCEPT !.pc = "done", !.outcome = outcome,
                                !.before = table, !.tx = e.tx,
                                !.emitted = e.emitted, !.result = e.result]
  /\ UNCHANGED <<coreVars, opsVars, upgradeVars, configVars, multiVars,
                 emitterVars, utilVars>>

\* The callers have their answers and the next call is made.
RecordReturn ==
  /\ call.pc = "done"
  /\ call.other.pc # "checked"
  /\ call' = NoCall
  /\ UNCHANGED <<table, coreVars, opsVars, upgradeVars, configVars,
                 multiVars,
                 emitterVars, utilVars>>

RecordInit ==
  /\ CoreIdle
  /\ OpsIdle
  /\ UpgradeIdle
  /\ RecordsIdle
  /\ MultiIdle
  /\ EmitterIdle
  /\ UtilIdle

\* A caller that awaits each call before it makes the next, or makes one
\* other call meanwhile.
RecordNext ==
  \/ \E req \in RecordRequests, outcome \in ConcOutcomes :
       RecordCall(req, outcome)
  \/ \E req \in OtherRequests, outcome \in ConcOutcomes :
       OtherCall(req, outcome)
  \/ \E outcome \in ConcOutcomes : RecordWrite(outcome)
  \/ \E outcome \in ConcOutcomes : OtherWrite(outcome)
  \/ RecordReturn

RecordSpec == RecordInit /\ [][RecordNext]_vars

\* ----------------------------------------------------------- configuration
\* The manager: its configuration, its connection and the closed ones.
Manager ==
  [dbConfig |-> dbConfig, thisDb |-> thisDb, closedDbs |-> closedDbs,
   dbSchema |-> schema]

\* close(): if (this.db) { this.db.close(); this.db = null }
closeManager(m) ==
  IF m.thisDb # 0
  THEN [m EXCEPT !.closedDbs = @ \cup {m.thisDb}, !.thisDb = 0]
  ELSE m

\* this.close(); this.dbConfig = config, of setDatabase
replaceDatabase(m, config) == [closeManager(m) EXCEPT !.dbConfig = config]

\* A setDatabase that does not validate what it is given.
setDatabaseUnchecked(m, config) ==
  [manager |-> replaceDatabase(m, config), result |-> NoResult]

\* setDatabase(config), up to its await of openDatabase(): the manager it
\* leaves, and its promise, rejected or pending.
setDatabase(m, config) ==
  IF ~validateAnyDatabaseConfig(config)
  THEN [manager |-> m, result |-> Rejected(InvalidConfigProvided)]
  ELSE [manager |-> replaceDatabase(m, config), result |-> NoResult]

\* What a schema declares: each of its stores, by its name, with the names
\* of its indexes.
declares(given) ==
  [s \in {given.stores[i].name.chars[1] : i \in DOMAIN given.stores} |->
     LET i == CHOOSE i \in DOMAIN given.stores :
                given.stores[i].name.chars[1] = s
     IN given.stores[i].indexes]

\* setSchema(schema): this.dbSchema = schema; this.dbConfig = { name,
\* version, store: schema.stores[0]?.name || 'default' }
setSchema(m, given) ==
  [m EXCEPT !.dbSchema = declares(given),
            !.dbConfig =
              Config(given.name, given.version,
                     IF given.stores # <<>>
                          /\ given.stores[1].name.chars # <<>>
                     THEN given.stores[1].name ELSE Str(<<"default">>))]

\* --------------------------------------------------------- several stores
\* createTimestamp(): new Date().toISOString()
createTimestamp == [iso |-> Epoch]

\* emitEvent(event, data): the EmitEventData the listeners are given; data is
\* the set of the ids affected (none for a clear, whose data is null).
emitEvent(event, data) ==
  [config |-> dbConfig, data |-> data,
   metadata |-> [timestamp |-> createTimestamp, operation |-> event]]

\* A clear that empties every store of the connection.
clearEveryStore(colls, storeName) == [s \in DOMAIN colls |-> {}]

\* store.clear() in the transaction of clearStore(storeName)
clearOneStore(colls, storeName) == [colls EXCEPT ![storeName] = {}]

\* The store a call works on: this.dbConfig.store for a method of the
\* manager, the proxy's storeName for a method of a store proxy.
TargetStore(req) ==
  IF req.via = "manager" THEN DefaultStore(dbConfig) ELSE req.store

\* The readwrite transaction of saveDataToStore, updateDataByIdInStore,
\* deleteDataFromStore and clearStore on the store storeName of the
\* connection, with a numeric id, on the stores as they are then; isUpdate
\* is what idExistsInStore answered before.
WriteStore(colls, storeName, kind, id, isUpdate, outcome) ==
  LET found == id \in colls[storeName]
      written ==
        CASE kind = "save" -> [colls EXCEPT ![storeName] = @ \cup {id}]
          [] kind = "update" -> colls
          [] kind = "deleteData" -> [colls EXCEPT ![storeName] = @ \ {id}]
          [] kind = "clear" -> clearOneStore(colls, storeName)
      c == executeTransaction(outcome,
                              IF kind = "update" /\ ~found THEN "null"
                              ELSE "done")
      event == IF kind = "save" THEN IF isUpdate THEN "update" ELSE "add"
               ELSE IF kind = "deleteData" THEN "delete"
               ELSE kind
      notified ==
        CASE kind \in {"save", "deleteData"} -> c.state = "resolved"
          [] kind = "update" -> found /\ callbackRan(outcome)
          [] kind = "clear" -> callbackRan(outcome)
  IN Effect(visibleAfter(outcome, colls, written), Settlement(c),
            IF kind \in {"save", "update"} THEN 2 ELSE 1,
            IF notified
            THEN <<emitEvent(event, IF kind = "clear" THEN {} ELSE {id})>>
            ELSE <<>>)

\* saveDataToStore, updateDataByIdInStore, deleteDataFromStore and clearStore
\* on the store storeName, with no other call between their transactions.
MutateStore(colls, storeName, kind, id, outcome) ==
  IF kind = "update" /\ id \notin colls[storeName]
  THEN Effect(colls, Resolved("null"), 1, <<>>)
  ELSE WriteStore(colls, storeName, kind, id, id \in colls[storeName],
                  outcome)

\* delete(id) of a store proxy: true, or false when deleteDataFromStore
\* failed.
proxyDelete(e) ==
  [e EXCEPT !.result =
     Resolved(IF e.result.state = "resolved" THEN "true" ELSE "false")]

\* What the caller of req is given for the effect e of the store method.
Answered(req, e) ==
  IF req.via = "proxy" /\ req.kind = "deleteData" THEN proxyDelete(e) ELSE e

\* A mutating call is made: it runs to its end, or to the answer of
\* idExistsInStore when a readwrite transaction is to follow it.
MutationCall(req, outcome) ==
  /\ mutation.pc = "idle"
  /\ req.via = "manager" => req.store = DefaultStore(dbConfig)
  /\ LET storeName == TargetStore(req)
         e == Answered(req, MutateStore(collections, storeName, req.kind,
                                        req.id, outcome))
         isUpdate == req.id \in collections[storeName]
         waits == req.kind = "save" \/ (req.kind = "update" /\ isUpdate)
     IN /\ collections' = IF waits THEN collections ELSE e.table
        /\ mutation' =
             IF waits
             THEN [NoMutation EXCEPT !.pc = "checked", !.via = req.via,
                                     !.store = storeName, !.kind = req.kind,
                                     !.id = req.id, !.before = collections,
                                     !.isUpdate = isUpdate]
             ELSE [NoMutation EXCEPT !.pc = "done", !.via = req.via,
                                     !.store = storeName, !.kind = req.kind,
                                     !.id = req.id, !.outcome = outcome,
                                     !.before = collections,
                                     !.emitted = e.emitted,
                                     !.result = e.result]
  /\ UNCHANGED <<configVars, emitterVars, utilVars, coreVars, opsVars, upgradeVars,
                 recordVars>>

\* Another call is made in the same turn, without awaiting the first: its
\* first transaction was created before the readwrite transaction of the
\* first call and runs before it.  It runs to its end, or to the answer of
\* idExistsInStore when a readwrite transaction is to follow it.
MutationOther(req, outcome) ==
  /\ mutation.pc = "checked"
  /\ mutation.other = NoOther
  /\ req.via = "manager" => req.store = DefaultStore(dbConfig)
  /\ LET storeName == TargetStore(req)
         e == Answered(req, MutateStore(collections, storeName, req.kind,
                                        req.id, outcome))
         isUpdate == req.id \in collections[storeName]
         waits == req.kind = "save" \/ (req.kind = "update" /\ isUpdate)
         other == [via |-> req.via, store |-> storeName, kind |-> req.kind,
                   id |-> req.id]
     IN /\ collections' = IF waits THEN collections ELSE e.table
        /\ mutation' = [mutation EXCEPT !.other =
                          IF waits
                          THEN other @@ [pc |-> "checked", outcome |-> "none",
                                         emitted |-> <<>>,
                                         result |-> NoResult,
                                         isUpdate |-> isUpdate]
                          ELSE other @@ [pc |-> "done", outcome |-> outcome,
                                         emitted |-> e.emitted,
                                         result |-> e.result,
                                         isUpdate |-> FALSE]]
  /\ UNCHANGED <<configVars, emitterVars, utilVars, coreVars, opsVars, upgradeVars,
                 recordVars>>

\* The readwrite transaction of the other call runs: it was created after
\* that of the first call, and the engine runs the readwrite transactions
\* of a store in the order they were created.
MutationOtherWrite(outcome) ==
  /\ mutation.pc = "done"
  /\ mutation.other.pc = "checked"
  /\ LET o == mutation.other
         e == WriteStore(collections, o.store, o.kind, o.id, o.isUpdate,
                         outcome)
     IN /\ collections' = e.table
        /\ mutation' = [mutation EXCEPT !.other =
                          [@ EXCEPT !.pc = "done", !.outcome = outcome,
                                    !.emitted = e.emitted,
                                    !.result = e.result]]
  /\ UNCHANGED <<configVars, emitterVars, utilVars, coreVars, opsVars, upgradeVars,
                 recordVars>>

\* The readwrite transaction of the waiting call runs, on the stores as
\* they are by now, and the call ends.
MutationWrite(outcome) ==
  /\ mutation.pc = "checked"
  /\ LET e == WriteStore(collections, mutation.store, mutation.kind,
                         mutation.id, mutation.isUpdate, outcome)
     IN /\ collections' = e.table
        /\ mutation' = [mutation EXCEPT !.pc = "done", !.outcome = outcome,
                                        !.before = collections,
                                        !.emitted = e.emitted,
                                        !.result = e.result]
  /\ UNCHANGED <<configVars, emitterVars, utilVars, coreVars, opsVars, upgradeVars,
                 recordVars>>

\* The callers have their answers and the next call is made.
MutationReturn ==
  /\ mutation.pc = "done"
  /\ mutation.other.pc # "checked"
  /\ mutation' = NoMutation
  /\ UNCHANGED <<configVars, collections, emitterVars, utilVars, coreVars, opsVars,
                 upgradeVars, recordVars>>

\* A manager made from a schema of two stores, the first its default store.
MultiInit ==
  /\ CoreIdle
  /\ OpsIdle
  /\ UpgradeIdle
  /\ RecordsIdle
  /\ MultiIdle
  /\ EmitterIdle
  /\ UtilIdle

MultiNext ==
  \/ \E req \in MutationRequests, outcome \in ConcOutcomes :
       MutationCall(req, outcome)
  \/ \E req \in MutationRequests, outcome \in ConcOutcomes :
       MutationOther(req, outcome)
  \/ \E outcome \in ConcOutcomes : MutationWrite(outcome)
  \/ \E outcome \in ConcOutcomes : MutationOtherWrite(outcome)
  \/ MutationReturn

MultiSpec == MultiInit /\ [][MultiNext]_vars

\* ------------------------------------------------------------- listeners
\* callbacks.indexOf(callback): the position of the first occurrence, counted
\* from 1, and 0 where indexOf gives -1.
indexOf(callbacks, callback) ==
  IF \E i \in DOMAIN callbacks : callbacks[i] = callback
  THEN CHOOSE i \in DOMAIN callbacks :
         /\ callbacks[i] = callback
         /\ \A j \in 1..(i - 1) : callbacks[j] # callback
  ELSE 0

\* callbacks.splice(index, 1): the array without the element at index.
splice(callbacks, index) ==
  SubSeq(callbacks, 1, index - 1)
    \o SubSeq(callbacks, index + 1, Len(callbacks))

\* Emitter.on(event, callback): events after the call.
on(evts, event, callback) ==
  [evts EXCEPT ![event] = Append(@, callback)]

\* Emitter.off(event, callback): events after the call.
off(evts, event, callback) ==
  IF callback # NoCallback
  THEN LET index == indexOf(evts[event], callback)
       IN IF index > 0
          THEN [evts EXCEPT ![event] = splice(@, index)]
          ELSE evts
  ELSE [evts EXCEPT ![event] = <<>>]

\* Emitter.once(event, callback): events after the call.
once(evts, event, callback) == on(evts, event, onceCallback(callback))

\* callbacks.forEach(callback => { try { callback(data) } catch ... }) of
\* emit: each function of the copy is called, and what it throws is caught
\* and logged. The listeners in throwing throw when they are called; those
\* in emitting emit the event again from inside, when the emission that
\* calls them is not itself made by a listener (depth 0). A function that
\* once registered calls its callback and then off on itself, which a throw
\* of the callback skips. The value: the events afterwards, the functions
\* called by this emission, those called by the emissions made from inside,
\* and those whose throw was caught.
RECURSIVE forEach(_, _, _, _, _, _)
forEach(evts, event, callbacks, throwing, emitting, depth) ==
  IF callbacks = <<>>
  THEN [events |-> evts, invoked |-> <<>>, nested |-> <<>>, caught |-> <<>>]
  ELSE LET registered == Head(callbacks)
           callback == CallbackOf(registered)
           inner == IF callback \in emitting /\ depth = 0
                    THEN forEach(evts, event, evts[event], throwing, emitting,
                                 depth + 1)
                    ELSE [events |-> evts, invoked |-> <<>>, nested |-> <<>>,
                          caught |-> <<>>]
           threw == callback \in throwing
           after == IF registered \in OnceCallbacks /\ ~threw
                    THEN off(inner.events, event, registered)
                    ELSE inner.events
           rest == forEach(after, event, Tail(callbacks), throwing, emitting,
                           depth)
       IN [events |-> rest.events,
           invoked |-> <<registered>> \o rest.invoked,
           nested |-> inner.invoked \o inner.nested \o rest.nested,
           caught |-> (IF threw THEN <<registered>> ELSE <<>>)
                        \o inner.caught \o rest.caught]

\* Emitter.emit(event, data): const callbacks = [...this.events[event]]
emit(evts, event, throwing, emitting) ==
  forEach(evts, event, evts[event], throwing, emitting, 0)

\* manager.on(event, callback)
On(event, callback) ==
  /\ Len(events[event]) < MaxListeners
  /\ events' = on(events, event, callback)
  /\ emitterCall' = [NoEmitterCall EXCEPT !.op = "on", !.event = event,
                                           !.callback = callback,
                                           !.before = events]
  /\ UNCHANGED <<emitterInstance, coreVars, opsVars, upgradeVars, recordVars,
                 configVars, multiVars, utilVars>>

\* emitter.once(event, callback); of the functions once has made for one
\* callback and one event, one is registered at a time.
Once(event, callback) ==
  /\ Len(events[event]) < MaxListeners
  /\ \A i \in DOMAIN events[event] : events[event][i] # onceCallback(callback)
  /\ events' = once(events, event, callback)
  /\ emitterCall' = [NoEmitterCall EXCEPT !.op = "once", !.event = event,
                                           !.callback = callback,
                                           !.before = events]
  /\ UNCHANGED <<emitterInstance, coreVars, opsVars, upgradeVars, recordVars,
                 configVars, multiVars, utilVars>>

\* manager.off(event, callback), and off(event) on the emitter
Off(event, callback) ==
  /\ events' = off(events, event, callback)
  /\ emitterCall' = [NoEmitterCall EXCEPT !.op = "off", !.event = event,
                                           !.callback = callback,
                                           !.before = events]
  /\ UNCHANGED <<emitterInstance, coreVars, opsVars, upgradeVars, recordVars,
                 configVars, multiVars, utilVars>>

\* removeAllListeners(): this.events = {}
removeAllListeners(evts) == NoEvents

\* emitter.removeAllListeners() on the emitter the manager uses
RemoveAllListeners ==
  /\ events' = removeAllListeners(events)
  /\ emitterCall' = [NoEmitterCall EXCEPT !.op = "removeAllListeners",
                                           !.before = events]
  /\ UNCHANGED <<emitterInstance, coreVars, opsVars, upgradeVars, recordVars,
                 configVars, multiVars, utilVars>>

\* The number of the callbacks registered on an emitter.
RECURSIVE CallbacksOn(_, _)
CallbacksOn(evts, names) ==
  IF names = {} THEN 0
  ELSE LET e == CHOOSE n \in names : TRUE
       IN Len(evts[e]) + CallbacksOn(evts, names \ {e})

\* setEmitterInstance(new Emitter()): the manager's on, off and emissions
\* work on the new emitter, which has no listener; the global emitter keeps
\* its own.
setEmitterInstance(evts, instance) ==
  [events |-> NoEvents,
   instance |-> [is |-> "own",
                 aside |-> IF instance.is = "emitter" THEN evts
                           ELSE instance.aside]]

\* refreshEmitterInstance(): this.emitterInstance = emitter, the global
\* emitter with the listeners it has.
refreshEmitterInstance(evts, instance) ==
  [events |-> IF instance.is = "emitter" THEN evts ELSE instance.aside,
   instance |-> GlobalEmitter]

SetEmitterInstance ==
  /\ emitterInstance.is = "emitter"
       => CallbacksOn(events, EventNames) <= MaxAside
  /\ LET e == setEmitterInstance(events, emitterInstance)
     IN /\ events' = e.events
        /\ emitterInstance' = e.instance
  /\ emitterCall' = [NoEmitterCall EXCEPT !.op = "setEmitterInstance",
                                           !.before = events]
  /\ UNCHANGED <<coreVars, opsVars, upgradeVars, recordVars, configVars,
                 multiVars, utilVars>>

RefreshEmitterInstance ==
  /\ LET e == refreshEmitterInstance(events, emitterInstance)
     IN /\ events' = e.events
        /\ emitterInstance' = e.instance
  /\ emitterCall' = [NoEmitterCall EXCEPT !.op = "refreshEmitterInstance",
                                           !.before = events]
  /\ UNCHANGED <<coreVars, opsVars, upgradeVars, recordVars, configVars,
                 multiVars, utilVars>>

\* A mutation of the manager emits its notification; the callbacks in
\* throwing are those that throw when called, those in emitting emit the
\* event again.
Emit(event, throwing, emitting) ==
  /\ LET e == emit(events, event, throwing, emitting)
     IN /\ events' = e.events
        /\ emitterCall' = [op |-> "emit", event |-> event,
                           callback |-> NoCallback, throwing |-> throwing,
                           emitting |-> emitting, invoked |-> e.invoked,
                           nested |-> e.nested, caught |-> e.caught,
                           before |-> events]
  /\ UNCHANGED <<emitterInstance, coreVars, opsVars, upgradeVars, recordVars,
                 configVars, multiVars, utilVars>>

\* An emitter with no listener, on a manager that is not otherwise used.
EmitterInit ==
  /\ CoreIdle
  /\ OpsIdle
  /\ UpgradeIdle
  /\ RecordsIdle
  /\ MultiIdle
  /\ EmitterIdle
  /\ UtilIdle

EmitterNext ==
  \/ \E event \in EventNames, callback \in Callbacks : On(event, callback)
  \/ \E event \in EventNames, callback \in Callbacks \cup {NoCallback} :
       Off(event, callback)
  \/ \E event \in EventNames, callback \in Callbacks : Once(event, callback)
  \/ \E event \in EventNames, throwing \in SUBSET Callbacks :
       \E emitting \in SUBSET (Callbacks \ throwing) :
         Emit(event, throwing, emitting)
  \/ RemoveAllListeners
  \/ SetEmitterInstance
  \/ RefreshEmitterInstance

EmitterSpec == EmitterInit /\ [][EmitterNext]_vars

\* ----------------------------------------------------- open and reconfigure
\* indexedDB.open(this.dbConfig.name, this.dbConfig.version), for a caller
\* of openDatabase; the connection it gives is known by the request's place.
open(config, by) == [config |-> config, state |-> "pending", by |-> by]

\* The database a connection belongs to.
DatabaseOf(connection) ==
  [name |-> requests[connection].config.name,
   version |-> requests[connection].config.version]
\* The database the manager's configuration names.
ConfiguredDatabase == [name |-> dbConfig.name, version |-> dbConfig.version]

\* The handler of a request that sets this.db whatever the manager has been
\* told since the request was made.
onsuccess(m, request) == [m EXCEPT !.thisDb = request]

\* request.onerror: if (this.db) { this.db.close(); this.db = null }
onerrorOpen(m) == closeManager(m)

\* The promise of setDatabase once the open request it awaits is answered.
\* The caller of a setDatabase that has settled takes its answer before
\* anything else is called or answered.
NoAnswerWaiting == setCall.pc # "done"

setCallAnswered(i, result) ==
  IF setCall.pc = "open" /\ setCall.request = i
  THEN [setCall EXCEPT !.pc = "done", !.result = result]
  ELSE setCall

\* openDatabase(), called by the application or by executeTransaction, finds
\* this.db null and makes a request.
OpenIssued(by) ==
  /\ NoAnswerWaiting
  /\ thisDb = 0
  /\ Len(requests) < MaxOpens
  /\ requests' = Append(requests, open(dbConfig, by))
  /\ UNCHANGED <<calc, importVars, coreVars, opsVars, upgradeVars, recordVars,
                 configVars, multiVars, emitterVars>>

\* setDatabase(config) runs to its await: a configuration that is not valid
\* is refused; a valid one closes the connection, becomes this.dbConfig and
\* is opened, the call waiting for the request.
SetDatabaseCalled(config) ==
  /\ setCall.pc = "idle"
  /\ Len(requests) < MaxOpens
  /\ LET e == setDatabase(Manager, config)
         waits == e.result.state = "pending"
     IN /\ dbConfig' = e.manager.dbConfig
        /\ thisDb' = e.manager.thisDb
        /\ closedDbs' = e.manager.closedDbs
        /\ requests' = IF waits
                       THEN Append(requests, open(config, "setDatabase"))
                       ELSE requests
        /\ setCall' = [pc |-> IF waits THEN "open" ELSE "done",
                       config |-> config, result |-> e.result,
                       request |-> IF waits THEN Len(requests) + 1 ELSE 0]
  /\ UNCHANGED <<calc, importVars, coreVars, opsVars, upgradeVars, recordVars,
                 multiVars, emitterVars>>

\* setSchema(schema)
SetSchemaCalled(given) ==
  /\ NoAnswerWaiting
  /\ LET m == setSchema(Manager, given)
     IN /\ dbConfig' = m.dbConfig
        /\ schema' = m.dbSchema
  /\ UNCHANGED <<calc, importVars, requests, thisDb, closedDbs, setCall,
                 coreVars, opsVars, stores, upgraded, upgradeError,
                 recordVars, multiVars, emitterVars>>

\* request.onsuccess of a request in flight; the promise of its caller
\* resolves.
RequestSucceeds(i) ==
  /\ NoAnswerWaiting
  /\ requests[i].state = "pending"
  /\ thisDb' = onsuccess(Manager, i).thisDb
  /\ requests' = [requests EXCEPT ![i].state = "success"]
  /\ setCall' = setCallAnswered(i, Resolved(Undefined))
  /\ UNCHANGED <<calc, importVars, dbConfig, closedDbs, coreVars, opsVars,
                 upgradeVars, recordVars, multiVars, emitterVars>>

\* request.onerror of a request in flight; the promise of its caller rejects.
RequestFails(i) ==
  /\ NoAnswerWaiting
  /\ requests[i].state = "pending"
  /\ LET m == onerrorOpen(Manager)
     IN /\ thisDb' = m.thisDb
        /\ closedDbs' = m.closedDbs
  /\ requests' = [requests EXCEPT ![i].state = "error"]
  /\ setCall' = setCallAnswered(i, Rejected(OpenError))
  /\ UNCHANGED <<calc, importVars, dbConfig, coreVars, opsVars, upgradeVars,
                 recordVars, multiVars, emitterVars>>

\* close()
CloseCalled ==
  /\ NoAnswerWaiting
  /\ thisDb # 0
  /\ LET m == closeManager(Manager)
     IN /\ thisDb' = m.thisDb
        /\ closedDbs' = m.closedDbs
  /\ UNCHANGED <<calc, importVars, requests, dbConfig, setCall, coreVars,
                 opsVars, upgradeVars, recordVars, multiVars, emitterVars>>

\* The caller of setDatabase has its answer.
SetReturn ==
  /\ setCall.pc = "done"
  /\ setCall' = NoSetCall
  /\ UNCHANGED <<dbConfig, thisDb, closedDbs, multiVars, emitterVars, utilVars,
                 coreVars, opsVars, upgradeVars, recordVars>>

\* A store of a schema: its name and the names of its indexes.
StoreConfig(name, indexes) == [name |-> Str(<<name>>), indexes |-> indexes]
\* The schemas given to setSchema, of a name and a version indexedDB.open
\* takes: with no store, with one, with or without an index, or with two.
SetSchemas ==
  [name : {Str(<<"d", "b">>)},
   version : {Num(2)},
   stores : {<<>>,
             <<StoreConfig("posts", {})>>,
             <<StoreConfig("posts", {"byName"})>>,
             <<StoreConfig("users", {}), StoreConfig("posts", {"byDate"})>>}]

\* The manager as constructed from the schema, with no connection.
ConfigInit ==
  /\ CoreIdle
  /\ OpsIdle
  /\ UpgradeIdle
  /\ RecordsIdle
  /\ MultiIdle
  /\ EmitterIdle
  /\ UtilIdle

ConfigNext ==
  \/ \E by \in {"openDatabase", "executeTransaction"} : OpenIssued(by)
  \/ \E config \in ConfigValues : SetDatabaseCalled(config)
  \/ \E given \in SetSchemas : SetSchemaCalled(given)
  \/ \E i \in DOMAIN requests : RequestSucceeds(i)
  \/ \E i \in DOMAIN requests : RequestFails(i)
  \/ CloseCalled
  \/ SetReturn

ConfigSpec == ConfigInit /\ [][ConfigNext]_vars

\* ---------------------------------------------------------------- import
\* resolve(value) of the promise importDataToDatabase returns: the first
\* call settles it.
resolveImport(c, value) ==
  [c EXCEPT !.resolves = @ + 1,
            !.promise = IF @ = "pending" THEN value ELSE @]

\* data.filter(item => item && typeof item === 'object' && (item.id !==
\* undefined && item.id !== null))
validItem(item) == item.id.type # "undefined"
processedData(data, validate) ==
  IF validate THEN SelectSeq(data, validItem) ELSE data

\* The items store.put(item) is called on before a put throws: put throws a
\* DataError on an item whose id the engine does not take as a key, which
\* ends the forEach and the handler it runs in.
putsIssued(processed) ==
  LET bad == {i \in 1..Len(processed) : ~validKey(processed[i].id)}
      n == IF bad = {} THEN Len(processed)
           ELSE (CHOOSE i \in bad : \A j \in bad : i <= j) - 1
  IN [i \in 1..n |-> processed[i].id]

\* processData(), called from a handler of the transaction's clear request
\* (an exception it throws there aborts the transaction) or from the
\* handler of the open request.
processData(c, st, inRequestHandler) ==
  LET processed == processedData(c.data, c.options.validate)
      total == Len(processed)
      issued == putsIssued(processed)
      threw == Len(issued) < total
      d == [c EXCEPT !.total = total, !.issued = issued,
                     !.pc = IF threw THEN "thrown" ELSE "write"]
  IN [call |-> IF total = 0 THEN resolveImport(d, "true") ELSE d,
      store |-> IF threw /\ inRequestHandler
                THEN [st EXCEPT !.txn = "aborted"] ELSE st]

\* importDataToDatabase(databaseConfig, data, options) is called with a
\* configuration that has a name, a version and a store.
ImportCalled(data, options) ==
  /\ importCall.pc = "idle"
  /\ importCall' = [NoImport EXCEPT !.pc = "open", !.data = data,
                                    !.options = options]
  /\ UNCHANGED <<importStore, calc, requests, coreVars, opsVars, upgradeVars,
                 recordVars, configVars, multiVars, emitterVars>>

\* request.onupgradeneeded of the open request, the stored database being
\* older than databaseConfig.version or not there: the store is created
\* unless the database has it.
ImportUpgradeNeeded ==
  /\ importCall.pc = "open"
  /\ importStore.older
  /\ importStore' = [importStore EXCEPT !.older = FALSE, !.exists = TRUE]
  /\ UNCHANGED <<importCall, calc, requests, coreVars, opsVars, upgradeVars,
                 recordVars, configVars, multiVars, emitterVars>>

\* request.onerror of the open request, which no upgrade has run for
ImportOpenFails ==
  /\ importCall.pc = "open"
  /\ importCall' = resolveImport([importCall EXCEPT !.pc = "done"], "false")
  /\ UNCHANGED <<importStore, calc, requests, coreVars, opsVars, upgradeVars,
                 recordVars, configVars, multiVars, emitterVars>>

\* request.onsuccess of the open request: db.transaction throws when the
\* database has no such store; else the store is cleared first or the data
\* is processed at once.
ImportOpenSucceeds ==
  /\ importCall.pc = "open"
  /\ ~importStore.older
  /\ IF ~importStore.exists
     THEN /\ importCall' = [importCall EXCEPT !.pc = "thrown"]
          /\ UNCHANGED importStore
     ELSE LET st == [importStore EXCEPT !.txn = "active",
                                        !.working = importStore.stored]
          IN IF importCall.options.clearBefore
             THEN /\ importCall' = [importCall EXCEPT !.pc = "clear"]
                  /\ importStore' = st
             ELSE LET e == processData(importCall, st, FALSE)
                  IN /\ importCall' = e.call
                     /\ importStore' = e.store
  /\ UNCHANGED <<calc, requests, coreVars, opsVars, upgradeVars, recordVars,
                 configVars, multiVars, emitterVars>>

\* clearRequest.onsuccess, and clearRequest.onerror: db.close();
\* resolve(false), the error aborting the transaction.
ClearAnswered(ok) ==
  /\ importCall.pc = "clear"
  /\ IF ok
     THEN LET e == processData(importCall,
                               [importStore EXCEPT !.working = {}], TRUE)
          IN /\ importCall' = e.call
             /\ importStore' = e.store
     ELSE /\ importCall' =
               resolveImport([importCall EXCEPT !.pc = "done"], "false")
          /\ importStore' = [importStore EXCEPT !.txn = "aborted"]
  /\ UNCHANGED <<calc, requests, coreVars, opsVars, upgradeVars, recordVars,
                 configVars, multiVars, emitterVars>>

\* addRequest.onsuccess and addRequest.onerror of the next put request, in
\* the order the requests were made; a request of a transaction that has
\* aborted fails, and a request that fails aborts the transaction.
PutAnswered(ok) ==
  /\ importCall.pc \in {"write", "thrown"}
  /\ importCall.answered < Len(importCall.issued)
  /\ importStore.txn \in {"active", "aborted"}
  /\ importStore.txn = "aborted" => ~ok
  /\ LET c == [importCall EXCEPT !.answered = @ + 1, !.completed = @ + 1,
                                 !.failed = @ \/ ~ok]
         value == IF ok THEN "true" ELSE "false"
     IN /\ importCall' = IF c.completed = c.total
                         THEN resolveImport(c, value) ELSE c
        /\ importStore' =
             IF ok
             THEN [importStore EXCEPT
                     !.working = @ \cup {importCall.issued[c.answered]}]
             ELSE [importStore EXCEPT !.txn = "aborted"]
  /\ UNCHANGED <<calc, requests, coreVars, opsVars, upgradeVars, recordVars,
                 configVars, multiVars, emitterVars>>

\* The transaction, its requests answered, commits, or the engine aborts it.
ImportTxnEnds(commits) ==
  /\ importCall.pc \in {"write", "thrown"}
  /\ importCall.answered = Len(importCall.issued)
  /\ importStore.txn = "active"
  /\ importStore' =
       IF commits
       THEN [importStore EXCEPT !.txn = "committed",
                                !.stored = importStore.working]
       ELSE [importStore EXCEPT !.txn = "aborted"]
  /\ UNCHANGED <<importCall, calc, requests, coreVars, opsVars, upgradeVars,
                 recordVars, configVars, multiVars, emitterVars>>

\* The caller has its answer, nothing of the import is pending, and the
\* next import is called.
ImportReturn ==
  /\ importCall.pc \in {"write", "done"}
  /\ importCall.promise # "pending"
  /\ importCall.answered = Len(importCall.issued)
  /\ importStore.txn # "active"
  /\ importCall' = NoImport
  /\ importStore' = [importStore EXCEPT !.txn = "none", !.working = {}]
  /\ UNCHANGED <<calc, requests, coreVars, opsVars, upgradeVars, recordVars,
                 configVars, multiVars, emitterVars>>

\* A database that holds some records, with or without the store, of the
\* version of the configuration or older.
ImportInit ==
  /\ CoreIdle
  /\ OpsIdle
  /\ UpgradeIdle
  /\ RecordsIdle
  /\ MultiIdle
  /\ EmitterIdle
  /\ calc = NoCalc
  /\ requests = <<>>
  /\ importCall = NoImport
  /\ \E exists \in BOOLEAN, older \in BOOLEAN, stored \in SUBSET StoredIds :
       importStore = [exists |-> exists, older |-> older,
                      stored |-> IF exists THEN stored ELSE {},
                      working |-> {}, txn |-> "none"]

ImportNext ==
  \/ \E data \in ImportData, options \in ImportOptions :
       ImportCalled(data, options)
  \/ ImportUpgradeNeeded
  \/ ImportOpenFails
  \/ ImportOpenSucceeds
  \/ \E ok \in BOOLEAN : ClearAnswered(ok)
  \/ \E ok \in BOOLEAN : PutAnswered(ok)
  \/ \E commits \in BOOLEAN : ImportTxnEnds(commits)
  \/ ImportReturn

ImportSpec == ImportInit /\ [][ImportNext]_vars

\* ---------------------------------------------------------------- search
\* The records of a store that is searched: their ids are their positions
\* in key order, category is a string and rank a number or undefined.
MaxFound == 3
MaxLimit == 2
Categories == {Str(<<"A">>), Str(<<"b", ".">>)}
Ranks == {Num(1), Num(2), NoId}
SearchRecords == [category : Categories, rank : Ranks]
\* getAllDataFromStore(storeName): the records in key order.
SearchData == UNION {[1..n -> SearchRecords] : n \in 0..MaxFound}
\* The queries: {}, {category: undefined} and {category: a string}.
Queries ==
  {<<>>} \cup [{"category"} -> {NoId, Str(<<"a">>), Str(<<"b">>),
                                 Str(<<".">>)}]
\* The options: limit and offset are numbers or undefined, orderBy is
\* "rank" or undefined.
SearchOptions ==
  [limit : {NoId} \cup {Num(n) : n \in 0..MaxLimit},
   offset : {NoId} \cup {Num(n) : n \in 0..MaxLimit},
   orderBy : {NoId, Str(<<"r", "a", "n", "k">>)},
   orderDirection : {NoId, Str(<<"d", "e", "s", "c">>)}]

\* s.toLowerCase()
toLowerCase(s) ==
  Str([i \in DOMAIN s.chars |-> IF s.chars[i] = "A" THEN "a" ELSE s.chars[i]])
\* s.includes(sub)
includes(s, sub) ==
  \E i \in 0..(Len(s.chars) - Len(sub.chars)) :
    SubSeq(s.chars, i + 1, i + Len(sub.chars)) = sub.chars
\* ['active', 'inactive', 'pending', 'draft', 'published', 'archived']
commonExactValues ==
  {Str(<<"a", "c", "t", "i", "v", "e">>),
   Str(<<"i", "n", "a", "c", "t", "i", "v", "e">>),
   Str(<<"p", "e", "n", "d", "i", "n", "g">>),
   Str(<<"d", "r", "a", "f", "t">>),
   Str(<<"p", "u", "b", "l", "i", "s", "h", "e", "d">>),
   Str(<<"a", "r", "c", "h", "i", "v", "e", "d">>)}

\* Object.entries(query).every(([key, value]) => ...) of an item
matchesQuery(item, query) ==
  \A key \in DOMAIN query :
    LET value == query[key]
        fieldValue == item[key]
        isDomainSearch == includes(value, Str(<<".">>))
        isLikelyExactValue == toLowerCase(value) \in commonExactValues
    IN IF value.type = "undefined" THEN TRUE
       ELSE IF isDomainSearch /\ ~isLikelyExactValue
            THEN includes(toLowerCase(fieldValue), toLowerCase(value))
            ELSE toLowerCase(fieldValue) = toLowerCase(value)

\* The comparator of filteredData.sort: -1, 0 or 1.
compareBy(a, b, options) ==
  LET aVal == a.rank
      bVal == b.rank
      direction == IF options.orderDirection = Str(<<"d", "e", "s", "c">>)
                   THEN 0 - 1 ELSE 1
  IN IF aVal.type = "undefined" /\ bVal.type = "undefined" THEN 0
     ELSE IF aVal.type = "undefined" THEN 1 * direction
     ELSE IF bVal.type = "undefined" THEN 0 - direction
     ELSE IF aVal.v < bVal.v THEN 0 - direction
     ELSE IF aVal.v > bVal.v THEN 1 * direction
     ELSE 0

\* Array.prototype.sort with that comparator: a stable sort.
RECURSIVE sort(_, _)
sort(items, options) ==
  IF items = <<>> THEN <<>>
  ELSE LET n == Len(items)
           x == items[n]
           front == sort(SubSeq(items, 1, n - 1), options)
           k == Cardinality({i \in 1..(n - 1) :
                               compareBy(front[i], x, options) <= 0})
       IN SubSeq(front, 1, k) \o <<x>> \o SubSeq(front, k + 1, n - 1)

\* items.slice(start, end) of numbers that are not negative
slice(items, start, end) ==
  SubSeq(items, start + 1, IF end < Len(items) THEN end ELSE Len(items))

\* A number that is not 0, the other values of the options being falsy.
truthyNumber(x) == x.type = "number" /\ x.v # 0

\* The sorting and the pagination, which both branches of
\* searchDataInStore do alike.
sortedData(filteredData, options) ==
  IF options.orderBy.type # "undefined" THEN sort(filteredData, options)
  ELSE filteredData
pagedData(filteredData, options) ==
  LET total == Len(filteredData)
      offset == IF truthyNumber(options.offset) THEN options.offset.v ELSE 0
      limit == IF truthyNumber(options.limit) THEN options.limit.v ELSE total
  IN IF truthyNumber(options.limit) \/ truthyNumber(options.offset)
     THEN slice(filteredData, offset, offset + limit)
     ELSE filteredData
\* Math.floor(offset / limit) + (offset > 0 ? 2 : 1)
pageOf(options) ==
  Num((options.offset.v \div options.limit.v)
        + (IF options.offset.v > 0 THEN 2 ELSE 1))

\* searchDataInStore(storeName, query, options), allData being what
\* getAllDataFromStore answered.
searchDataInStore(allData, query, options) ==
  LET withIds == [i \in DOMAIN allData |->
                    [id |-> i, category |-> allData[i].category,
                     rank |-> allData[i].rank]]
      matching(item) == matchesQuery(item, query)
      filteredData == IF DOMAIN query = {} THEN withIds
                      ELSE SelectSeq(withIds, matching)
      ordered == sortedData(filteredData, options)
      page == IF DOMAIN query = {}
              THEN IF truthyNumber(options.offset)
                      /\ truthyNumber(options.limit)
                   THEN pageOf(options) ELSE NoId
              ELSE IF truthyNumber(options.limit)
                   THEN IF truthyNumber(options.offset)
                        THEN pageOf(options) ELSE Num(1)
                   ELSE NoId
  IN [items |-> pagedData(ordered, options),
      total |-> Len(ordered),
      page |-> page,
      limit |-> IF truthyNumber(options.limit) THEN options.limit
                ELSE NoId]

\* search(query, options) is called on a store that holds allData.
SearchCalled(allData, query, options) ==
  /\ calc = NoCalc
  /\ calc' = [fn |-> "search", allData |-> allData, query |-> query,
              options |-> options,
              result |-> searchDataInStore(allData, query, options)]
  /\ UNCHANGED <<coreVars, opsVars, upgradeVars, recordVars, configVars,
                 multiVars, emitterVars, requests, importVars>>

\* The caller has the result.
SearchReturn ==
  /\ calc.fn = "search"
  /\ calc' = NoCalc
  /\ UNCHANGED <<coreVars, opsVars, upgradeVars, recordVars, configVars,
                 multiVars, emitterVars, requests, importVars>>

SearchInit ==
  /\ CoreIdle
  /\ OpsIdle
  /\ UpgradeIdle
  /\ RecordsIdle
  /\ MultiIdle
  /\ EmitterIdle
  /\ UtilIdle

SearchNext ==
  \/ /\ calc = NoCalc
     /\ \E allData \in SearchData, query \in Queries,
           options \in SearchOptions :
          SearchCalled(allData, query, options)
  \/ SearchReturn

SearchSpec == SearchInit /\ [][SearchNext]_vars

\* ------------------------------------------------------------- utilities
\* An identifier is given to normalizeId.
NormalizeGiven(x) ==
  /\ calc = NoCalc
  /\ calc' = [fn |-> "normalizeId", x |-> x, applied |-> 0, value |-> x]
  /\ UNCHANGED <<coreVars, opsVars, upgradeVars, recordVars, configVars,
                 multiVars, emitterVars, requests, importVars>>

\* normalizeId is applied to the identifier, and then to what it returned.
NormalizeApply ==
  /\ calc.fn = "normalizeId"
  /\ calc.applied < 2
  /\ calc' = [calc EXCEPT !.applied = @ + 1, !.value = normalizeId(@)]
  /\ UNCHANGED <<coreVars, opsVars, upgradeVars, recordVars, configVars,
                 multiVars, emitterVars, requests, importVars>>

\* The caller goes on to the next identifier.
NormalizeReturn ==
  /\ calc.fn = "normalizeId"
  /\ calc.applied = 2
  /\ calc' = NoCalc
  /\ UNCHANGED <<coreVars, opsVars, upgradeVars, recordVars, configVars,
                 multiVars, emitterVars, requests, importVars>>

NormalizeInit ==
  /\ CoreIdle
  /\ OpsIdle
  /\ UpgradeIdle
  /\ RecordsIdle
  /\ MultiIdle
  /\ EmitterIdle
  /\ UtilIdle

NormalizeNext ==
  \/ \E x \in Identifiers : NormalizeGiven(x)
  \/ NormalizeApply
  \/ NormalizeReturn

NormalizeSpec == NormalizeInit /\ [][NormalizeNext]_vars

\* --------------------------------------------------------------- upgrade
\* db.objectStoreNames.contains(name)
contains(layout, name) == name \in DOMAIN layout

\* An upgrade that creates every declared store, whether the database has
\* it or not.
mustCreateAlways(layout, name) == TRUE

\* if (!db.objectStoreNames.contains(storeConfig.name)): whether the upgrade
\* calls db.createObjectStore for a declared store.
mustCreate(layout, name) == ~contains(layout, name)

\* db.createObjectStore(name) throws a ConstraintError when the database has
\* a store of that name.
createObjectStoreThrows(layout, name) == contains(layout, name)

\* The store db.createObjectStore gives, with the indexes then created on it:
\* it has no records.
createObjectStore(indexes) == [indexes |-> indexes, records |-> {}]

\* request.onupgradeneeded with a dbSchema: each declared store that the
\* database lacks is created, with its declared indexes; a store the database
\* has is left as it is.  A createObjectStore that throws creates nothing
\* (the error is caught and logged).
onupgradeneeded(layout, dbSchema) ==
  [s \in DOMAIN layout \cup DOMAIN dbSchema |->
     IF s \in DOMAIN dbSchema /\ mustCreate(layout, s)
          /\ ~createObjectStoreThrows(layout, s)
     THEN createObjectStore(dbSchema[s])
     ELSE layout[s]]

\* Whether a createObjectStore call of the upgrade throws.
upgradeThrows(layout, dbSchema) ==
  \E s \in DOMAIN dbSchema :
    mustCreate(layout, s) /\ createObjectStoreThrows(layout, s)

\* The engine runs the upgrade of an open request.
SchemaUpgrade ==
  /\ ~upgraded
  /\ stores' = onupgradeneeded(stores, schema)
  /\ upgradeError' = upgradeThrows(stores, schema)
  /\ upgraded' = TRUE
  /\ UNCHANGED <<schema, coreVars, opsVars, recordVars, configVars,
                 multiVars,
                 emitterVars, utilVars>>

\* A stored database of any layout is opened by a manager with any schema.
UpgradeInit ==
  /\ CoreIdle
  /\ OpsIdle
  /\ RecordsIdle
  /\ MultiIdle
  /\ EmitterIdle
  /\ UtilIdle
  /\ stores \in StoredLayouts
  /\ schema \in Layouts
  /\ upgraded = FALSE
  /\ upgradeError = FALSE

UpgradeNext ==
  \/ SchemaUpgrade
  \/ \E given \in SetSchemas : SetSchemaCalled(given)

UpgradeSpec == UpgradeInit /\ [][UpgradeNext]_vars

\* ------------------------------------------------------------------ claims
Settled(c) == ctx[c].state # "pending"
UowFailed(c) == uow[c].st \in {"threw", "failed"}
\* A write of call c's callback is in the committed content of its store.
WritesVisible(c) == \E k \in Keys : storeData[args[c].storeName][k] = c

\* C1: the promise executeTransaction returns is settled at most once: once
\* it is resolved or rejected, no later signal (result or failure of the
\* callback, complete, error or abort event, duplicate or late) changes its
\* state or its value.
C1_SettledAtMostOnce ==
  [][\A c \in Calls :
       Settled(c) => /\ ctx'[c].state = ctx[c].state
                     /\ ctx'[c].value = ctx[c].value]_vars

\* A rejected promise on which resolve was then invoked: the callback has
\* returned and oncomplete has fired, so checkCompletion ran after the
\* rejection.
C1_Witness ==
  \E c \in Calls : /\ ctx[c].state = "rejected"
                   /\ uow[c].st = "returned"
                   /\ ctx[c].isCallbackDone
                   /\ ctx[c].isTransactionDone

\* C2: the promise is resolved only when the callback has returned
\* successfully and the engine has signalled complete, and then with the
\* value the callback returned.
C2_ResolvesOnlyWhenBoth ==
  \A c \in Calls :
    ctx[c].state = "resolved" =>
      /\ uow[c].st = "returned"
      /\ ctx[c].isTransactionDone
      /\ ctx[c].value = uow[c].val

\* C3: every call of executeTransaction eventually settles, given that the
\* callback finishes and the engine delivers a terminal event.
C3_EventuallySettles ==
  \A c \in Calls : (pc[c] # "idle") ~> Settled(c)

\* C4: when the callback fails, the promise rejects with the error the
\* callback raised, and only once the abort event has been processed when the
\* handle offers abort.  Stated of every step that settles the promise of a
\* call whose callback has failed, with a non-empty error, by the end of that
\* step.
C4_RejectsWithUowError ==
  [][\A c \in Calls :
       (~Settled(c) /\ ctx'[c].state # "pending"
          /\ uow'[c].st \in {"threw", "failed"} /\ Truthy(uow'[c].val))
       => /\ ctx'[c].state = "rejected"
          /\ ctx'[c].value = uow'[c].val
          /\ hasAbort => txn'[c].state = "aborted"]_vars

\* C5 as claimed: once a call whose callback failed in a read-write
\* transaction has settled, none of the callback's writes is visible.
C5_NoWritesAfterFailure ==
  \A c \in Calls :
    (args[c].mode = "readwrite" /\ UowFailed(c) /\ Settled(c))
      => ~WritesVisible(c)

\* C5 as amended: when the callback fails in a read-write transaction that
\* is still active, abort is requested exactly when the handle offers abort;
\* and once abort is requested of the transaction of a failed callback, the
\* transaction does not commit and none of the callback's writes is visible,
\* whether the call has settled or not.
C5_AbortDiscardsWrites ==
  [][\A c \in Calls :
       /\ (args'[c].mode = "readwrite" /\ uow'[c] # uow[c] /\ UowFailed(c)'
             /\ txn'[c].state = "active")
          => txn'[c].abortRequested = hasAbort
       /\ (args'[c].mode = "readwrite" /\ UowFailed(c)'
             /\ txn'[c].abortRequested)
          => /\ txn'[c].state \in {"active", "aborted"}
             /\ ~WritesVisible(c)']_vars

\* A settled call whose callback failed in a read-write transaction that was
\* then aborted, with the store as it was.
C5_Witness ==
  \E c \in Calls : /\ hasAbort
                   /\ args[c].mode = "readwrite"
                   /\ uow[c].st = "failed"
                   /\ txn[c].abortRequested
                   /\ txn[c].state = "aborted"
                   /\ ctx[c].state = "rejected"
                   /\ ~WritesVisible(c)

\* C6: when complete is signalled for a transaction whose callback has
\* failed, the promise is rejected, never resolved, whatever the recorded
\* error is.
C6_FailedNeverResolves ==
  \A c \in Calls :
    (uow[c].st = "failed" /\ ctx[c].isCallbackDone /\ ctx[c].isTransactionDone)
      => ctx[c].state = "rejected"

\* C7: when the callback fails asynchronously on a handle without abort, the
\* promise is rejected at once, without waiting for complete (stated for a
\* non-empty error, so that C6 does not interfere).
C7_RejectsAtOnceWithoutAbort ==
  \A c \in Calls :
    (uow[c].st = "failed" /\ Truthy(uow[c].val) /\ ~hasAbort)
      => ctx[c].state = "rejected"

\* C8: an error or abort event that arrives while the promise is pending
\* rejects it with transaction.error, or with the generic aborted error when
\* transaction.error is empty.  A step that settles the promise of a call in
\* its transaction without moving the callback and without newly recording
\* complete is the onerror or the onabort handler.
C8_EngineErrorOrGeneric ==
  [][\A c \in Calls :
       (pc[c] = "inTx" /\ ~Settled(c) /\ ctx'[c].state # "pending"
          /\ uow'[c] = uow[c]
          /\ ctx'[c].isTransactionDone = ctx[c].isTransactionDone)
       => /\ ctx'[c].state = "rejected"
          /\ ctx'[c].value = Or(txn'[c].error, AbortedError)]_vars

\* C9: a call that names a store absent from the connection is rejected with
\* the not-found error, no transaction is created for it and its callback is
\* not run; no store appears on the connection but the configured one, which
\* the upgrade creates.
C9_MissingStoreFailsFast ==
  /\ objectStoreNames \subseteq {DbConfigStore}
  /\ \A c \in Calls :
       (conn[c] # NoConn /\ pc[c] \in {"inTx", "done"}
          /\ args[c].storeName \notin objectStoreNames)
       => /\ ctx[c].state = "rejected"
          /\ ctx[c].value = NotFoundError
          /\ txn[c] = NoTxn
          /\ uow[c] = UowNotRun

\* A call on the absent store that went through the store check.
C9_Witness ==
  \E c \in Calls : /\ args[c].storeName \notin objectStoreNames
                   /\ conn[c] # NoConn
                   /\ pc[c] = "done"
                   /\ ctx[c].value = NotFoundError

\* C10: at most one open request of the manager is outstanding at any time.
C10_OneOpenInFlight == Cardinality(OpenRequests) <= 1

\* An operation has returned, and has succeeded.
OpDone(p) == ops[p].pc = "done"
Succeeded(p) ==
  /\ OpDone(p)
  /\ ops[p].result.state = "resolved"
  /\ ops[p].result.value # "false"
\* The records an operation that succeeded has affected: one per listed item
\* of a batch, the record of a save or a delete, the record an update found.
Affected(p) ==
  CASE ops[p].kind \in BatchKinds -> Len(ops[p].items)
    [] ops[p].kind \in {"save", "deleteData", "delete", "clear"} -> 1
    [] ops[p].kind = "update" -> IF ops[p].result.value = "record" THEN 1 ELSE 0
    [] OTHER -> 0

\* C11: a mutating operation that completes successfully has emitted exactly
\* one notification per affected record, in the order of the listed items and
\* each about its item's id (one per item of a batch, one for a save, an
\* update or a delete), and exactly one for a clear.
C11_OneNotificationPerRecord ==
  \A p \in OpProcs :
    Succeeded(p) =>
      /\ Len(ops[p].emitted) = Affected(p)
      /\ \A i \in 1..Len(ops[p].emitted) :
           /\ ops[p].kind # "clear" => ops[p].emitted[i][2] = ops[p].ids[i]
           /\ ops[p].kind = "clear" => ops[p].emitted[i][1] = "clear"

\* An addMany of two items that succeeded, with its two notifications.
C11_Witness ==
  \E p \in OpProcs : /\ Succeeded(p)
                     /\ ops[p].kind = "addMany"
                     /\ Len(ops[p].items) = 2
                     /\ Len(ops[p].emitted) = 2

\* The store with every write of the batch operation p applied to data.
BatchApplied(data, o, p) ==
  IF o.kind = "deleteMany" THEN deleteAll(data, o.ids, Len(o.ids))
  ELSE putAll(data, o.ids, Len(o.ids), p)

\* C12: a batch call runs in exactly one Transaction Context, and the step in
\* which that context ends either makes all the writes of the batch visible
\* (and the call answers true) or leaves the store as it was (and the call
\* answers false).
C12_BatchIsAtomic ==
  [][\A p \in OpProcs :
       (ops[p].kind \in BatchKinds /\ ops[p].pc = "write"
          /\ ops'[p].pc = "done")
       => /\ ops'[p].tx = 1
          /\ \/ /\ ops'[p].result.value = "true"
                /\ content' = BatchApplied(content, ops'[p], p)
             \/ /\ ops'[p].result.value = "false"
                /\ content' = content]_vars

\* A batch of two items whose second request failed.
C12_Witness ==
  \E p \in OpProcs : /\ OpDone(p)
                     /\ ops[p].kind \in BatchKinds
                     /\ Len(ops[p].items) = 2
                     /\ ops[p].outcome = "requestFailed"
                     /\ ops[p].result.value = "false"

\* C13: an addMany whose items carry no id, on any content of the store,
\* assigns pairwise distinct ids, none of them the id of a stored record, so
\* that the store grows by the size of the batch when it commits.
C13_BatchIdsDistinct ==
  [][\A p \in OpProcs :
       (ops[p].kind = "addMany" /\ ops[p].pc = "write" /\ ops'[p].pc = "done"
          /\ \A i \in 1..Len(ops[p].items) : ~isValidId(ops[p].items[i]))
       => /\ Cardinality(Range(ops'[p].ids)) = Len(ops[p].items)
          /\ Range(ops'[p].ids) \cap storeIds(content) = {}
          /\ ops'[p].outcome = "commit" =>
               Cardinality(content') = Cardinality(content) + Len(ops[p].items)]_vars

\* An addMany of two items without ids that committed on a store that held
\* records.
C13_Witness ==
  \E p \in OpProcs : /\ Succeeded(p)
                     /\ ops[p].kind = "addMany"
                     /\ ops[p].items = <<{}, {}>>
                     /\ Cardinality(content) > 2

\* C14: addMany, updateMany and deleteMany never reject: they resolve true
\* when their Transaction Context committed and false for every way it failed.
C14_BatchAnswersBoolean ==
  \A p \in OpProcs :
    (OpDone(p) /\ ops[p].kind \in BatchKinds) =>
      /\ ops[p].result.state = "resolved"
      /\ ops[p].result.value \in {"true", "false"}
      /\ ops[p].result.value = "true" <=> ops[p].outcome = "commit"

\* A batch whose transaction the engine failed with an error event.
C14_Witness ==
  \E p \in OpProcs : /\ OpDone(p)
                     /\ ops[p].kind \in BatchKinds
                     /\ ops[p].outcome = "engineError"
                     /\ ops[p].result = [state |-> "resolved", value |-> "false"]

\* A single-record operation whose Transaction Context failed.
SingleFailed(p) ==
  /\ OpDone(p)
  /\ ops[p].kind \in SingleKinds
  /\ ops[p].outcome # "commit"
\* The rejection executeTransaction delivered to operation p.
CoordinatorError(p) == executeTransaction(ops[p].outcome, Undefined).value

\* C15 as claimed: every single-record operation whose Transaction Context
\* failed rejects with the coordinator's error.
C15_SingleOpsReject ==
  \A p \in OpProcs :
    SingleFailed(p) =>
      ops[p].result = [state |-> "rejected", value |-> CoordinatorError(p)]

\* C15 as amended: save, get, update and deleteDataFromStore reject with the
\* coordinator's error; delete, on the manager and on a store proxy, resolves
\* false.
C15_SingleOpsRejectButDelete ==
  \A p \in OpProcs :
    SingleFailed(p) =>
      IF ops[p].kind = "delete"
      THEN ops[p].result = [state |-> "resolved", value |-> "false"]
      ELSE ops[p].result = [state |-> "rejected", value |-> CoordinatorError(p)]

\* A save whose put request failed: rejected with what onabort delivered.
C15_Witness ==
  \E p \in OpProcs : /\ OpDone(p)
                     /\ ops[p].kind = "save"
                     /\ ops[p].outcome = "requestFailed"
                     /\ ops[p].result.state = "rejected"

\* Operation p is a save that was given an id (the first item has one).
SaveWithId(p) == ops[p].kind = "save" /\ isValidId(ops[p].items[1])
\* Operation p is a save that was given no id.
SaveWithoutId(p) == ops[p].kind = "save" /\ ~isValidId(ops[p].items[1])
\* The operations that have been called.
Started == {p \in OpProcs : ops[p].pc # "idle"}

\* C16: between the existence check of a save with an explicit id and its
\* write, no write of another operation takes effect on that id: while the
\* save waits to write, whether its id is stored does not change.
C16_CheckAndWriteTogether ==
  [][\A p \in OpProcs :
       (SaveWithId(p) /\ ops[p].pc = "write" /\ ops'[p].pc = "write")
       => (storeHas(content', ops[p].ids[1]) <=> ops[p].isUpdate[1])]_vars

\* C17: a save with an explicit id whose write transaction commits resolves,
\* whatever is stored under the id, and leaves exactly one record with that
\* id, its own; so of two concurrent saves of one id both resolve and the
\* record is that of the save that wrote last.
C17_LastWriteWins ==
  /\ [][\A p \in OpProcs :
          (SaveWithId(p) /\ ops[p].pc = "write" /\ ops'[p].pc = "done"
             /\ ops'[p].outcome = "commit")
          => /\ ops'[p].result = [state |-> "resolved", value |-> "record"]
             /\ {r \in content' : r[1] = ops[p].ids[1]}
                  = {<<ops[p].ids[1], p>>}]_vars
  /\ [](\A p, q \in OpProcs :
          (p # q /\ Started = {p, q} /\ SaveWithId(p) /\ SaveWithId(q)
             /\ ops[p].ids = ops[q].ids /\ Succeeded(p) /\ Succeeded(q))
          => \E w \in {p, q} :
               {r \in content : r[1] = ops[p].ids[1]} = {<<ops[p].ids[1], w>>})

\* Two saves of the same id that both found it absent and both resolved; the
\* record is that of one of them.
C17_Witness ==
  \E p, q \in OpProcs : /\ p # q
                        /\ SaveWithId(p) /\ SaveWithId(q)
                        /\ ops[p].ids = ops[q].ids
                        /\ Succeeded(p) /\ Succeeded(q)
                        /\ ~ops[p].isUpdate[1] /\ ~ops[q].isUpdate[1]
                        /\ <<ops[p].ids[1], q>> \in content

\* C18: when the operations issued are all adds without id and all have
\* resolved, the store holds one record more per add than before.
C18_ConcurrentAddsAllStored ==
  (/\ Started # {}
   /\ \A p \in Started : SaveWithoutId(p) /\ Succeeded(p))
  => Cardinality(content) = Cardinality(content0) + Cardinality(Started)

\* Operation p applied to the store on its own.
ApplyOp(data, p) ==
  CASE ops[p].kind = "save" -> storePut(data, ops[p].ids[1], p)
    [] ops[p].kind = "update" ->
         IF storeHas(data, ops[p].ids[1])
         THEN storePut(data, ops[p].ids[1], p) ELSE data
    [] ops[p].kind \in {"deleteData", "delete"} ->
         storeDelete(data, ops[p].ids[1])
    [] OTHER -> data

\* The store after the operations of order ran one after another.
RECURSIVE RunInOrder(_, _)
RunInOrder(data, order) ==
  IF order = <<>> THEN data
  ELSE RunInOrder(ApplyOp(data, Head(order)), Tail(order))

\* The orders in which the operations of S can be run one after another.
Orders(S) ==
  {order \in [1..Cardinality(S) -> S] :
     \A i, j \in 1..Cardinality(S) : i # j => order[i] # order[j]}

\* C19: single-record operations (save with an explicit id, update, delete,
\* get) issued concurrently on pairwise distinct ids, whose transactions all
\* commit, all resolve, and the store ends as if they had run one after
\* another, in any order.
C19_DistinctIdsSerializable ==
  (/\ Cardinality(Started) >= 2
   /\ \A p \in Started :
        /\ OpDone(p)
        /\ ops[p].outcome = "commit"
        /\ ~SaveWithoutId(p)
   /\ \A p, q \in Started : p # q => ops[p].ids # ops[q].ids)
  => /\ \A p \in Started : ops[p].result.state = "resolved"
     /\ \A order \in Orders(Started) : content = RunInOrder(content0, order)

\* An update and a save on distinct ids, both done, the update having found
\* its record.
C19_Witness ==
  \E p, q \in OpProcs : /\ Started = {p, q} /\ p # q
                        /\ OpDone(p) /\ OpDone(q)
                        /\ ops[p].kind = "update" /\ ops[q].kind = "save"
                        /\ ops[p].result.value = "record"
                        /\ ops[p].outcome = "commit"
                        /\ ops[q].outcome = "commit"
                        /\ ops[p].ids # ops[q].ids

\* C20: once the upgrade has run, every store the schema declares exists and
\* has every index the schema declares for it.
C20_UpgradeCompletesSchema ==
  upgraded =>
    \A s \in DOMAIN schema :
      /\ s \in DOMAIN stores
      /\ schema[s] \subseteq stores[s].indexes

\* C21: the upgrade leaves every store the database had as it was, with its
\* indexes and its records, and no call of the upgrade handler throws: a
\* store or an index that is already there is passed over.
C21_UpgradeKeepsExisting ==
  [][upgraded' /\ ~upgraded
       => /\ \A s \in DOMAIN stores :
               s \in DOMAIN stores' /\ stores'[s] = stores[s]
          /\ ~upgradeError']_vars

\* An upgrade that met a declared store the database already had, with
\* records in it, and created another one.
C21_Witness ==
  /\ upgraded
  /\ \E s \in DOMAIN schema \cap DOMAIN stores :
       /\ stores[s].records # {}
       /\ schema[s] # stores[s].indexes
  /\ \E s \in DOMAIN stores : s \in DOMAIN schema /\ stores[s].records = {}
                               /\ stores[s].indexes = schema[s]
  /\ ~upgradeError

\* A call made meanwhile has written after the call ended.
LaterWrite == call.other.pc = "done" /\ call.other.tx = 2
\* A call has returned and the store is as it left it; its promise is
\* resolved.
CallDone == call.pc = "done" /\ ~LaterWrite
CallResolved == CallDone /\ call.result.state = "resolved"
\* get(id) on the store as it is, its transaction committing.
GetNow(id) == getDataByIdFromStore(table, id, "commit").result
\* The number of records.
Count(data) == Cardinality(data)

\* C22: once a save of a record with a valid id has resolved, get of the id of
\* the record that save returned gives that record, field for field, and the
\* count is one more than before when the id was new (1 after a save into an
\* empty store).
C22_SaveThenGet ==
  (CallResolved /\ call.kind = "save") =>
    LET saved == call.result.value
    IN /\ GetNow(saved.id).state = "resolved"
       /\ GetNow(saved.id).value = saved
       /\ Count(table) = Count(call.before)
                           + (IF storeHas(call.before, saved.id) THEN 0 ELSE 1)
       /\ call.before = {} => Count(table) = 1

\* C23: the store never holds two records whose ids normalize to the same
\* key, such as the string "1" and the number 1.
C23_OneRecordPerIdentifier ==
  \A r1, r2 \in table :
    normalizeId(r1[1]) = normalizeId(r2[1]) => r1 = r2

\* An update, by updateDataByIdInStore or by the manager's update, of a valid
\* id, and whether the id had a record when the last transaction of the
\* update ran.
UpdateOfValidId ==
  /\ CallDone
  /\ call.kind \in {"update", "managerUpdate"}
  /\ isValidIdValue(call.ids[1])
UpdateFound == storeHas(call.before, normalizeId(call.ids[1]))
\* The update ended without a readwrite transaction, or with one that
\* committed.
UpdateAnswered == call.tx = 2 => call.outcome = "commit"
\* What an update that found nothing does not do: write or notify.
UpdateDidNothing == table = call.before /\ call.emitted = <<>>
\* An update that found its record and committed stored and returned the
\* record merged with the fields given.
UpdateMerged ==
  LET key == normalizeId(call.ids[1])
      old == storeGet(call.before, key)
      merged == Record(key, spread(old.fields, call.fields))
  IN /\ call.result.state = "resolved"
     /\ call.result.value = merged
     /\ table = storePut(call.before, key, merged.fields)
     /\ storeGet(table, key) = merged

\* C24 as claimed: every update of an id without record gives null.
C24_UpdateMissingGivesNull ==
  UpdateOfValidId =>
    IF UpdateFound THEN call.outcome = "commit" => UpdateMerged
    ELSE /\ call.result.state = "resolved"
         /\ call.result.value = NoRecord
         /\ UpdateDidNothing

\* C24 as amended: an update of an id without record when its transaction
\* runs writes nothing and emits nothing; unless that transaction is aborted,
\* updateDataByIdInStore gives null and the manager's update rejects with the
\* not-found error.  An update of an id with a record, its transaction
\* committing, stores and returns the record merged with the fields given.
C24_UpdateMissingNullOrNotFound ==
  UpdateOfValidId =>
    IF UpdateFound THEN call.outcome = "commit" => UpdateMerged
    ELSE /\ UpdateDidNothing
         /\ (call.kind = "update" /\ UpdateAnswered) =>
              call.result.state = "resolved" /\ call.result.value = NoRecord
         /\ (call.kind = "managerUpdate" /\ UpdateAnswered) =>
              call.result.state = "rejected" /\ call.result.value = ItemNotFound

\* An update that overrode one field of its record and kept the other.
C24_Witness ==
  /\ UpdateOfValidId /\ UpdateFound /\ CallResolved
  /\ call.fields = [name |-> "n2", value |-> Undefined]
  /\ call.result.value.fields = [name |-> "n2", value |-> "v1"]
  /\ Len(call.emitted) = 1

\* The keys a deleteMany addresses.
Listed == {normalizeId(call.ids[i]) : i \in 1..Len(call.ids)}

\* C25: after a deleteMany that resolved true, get gives null for every
\* listed id, the records of the other ids are as they were, and the count
\* has dropped by the number of listed keys that had a record.
C25_DeleteManyFrame ==
  (CallDone /\ call.kind = "deleteMany" /\ call.result.value = "true") =>
    /\ \A i \in 1..Len(call.ids) :
         /\ GetNow(call.ids[i]).state = "resolved"
         /\ GetNow(call.ids[i]).value = NoRecord
    /\ table = {r \in call.before : r[1] \notin Listed}
    /\ Count(table) = Count(call.before)
                        - Cardinality(Listed \cap storeIds(call.before))

\* A deleteMany of two ids, one with a record and one without, on a store of
\* two records.
C25_Witness ==
  /\ CallDone /\ call.kind = "deleteMany" /\ call.result.value = "true"
  /\ Len(call.ids) = 2
  /\ Cardinality(Listed) = 2
  /\ Count(call.before) = 2
  /\ Count(table) = 1

\* A call of one record whose id is missing or malformed.
InvalidIdCall ==
  /\ CallDone
  /\ call.kind \in {"get", "update", "managerUpdate", "deleteData", "delete"}
  /\ ~isValidIdValue(call.ids[1])
\* Such a call starts no transaction and leaves the store as it was.
NothingStarted == call.tx = 0 /\ table = call.before /\ call.emitted = <<>>
\* A get of a valid id without record, its transaction committing, gives
\* null.
GetMissGivesNull ==
  (CallDone /\ call.kind = "get" /\ isValidIdValue(call.ids[1])
     /\ call.outcome = "commit"
     /\ ~storeHas(call.before, normalizeId(call.ids[1])))
  => call.result.state = "resolved" /\ call.result.value = NoRecord

\* C28 as claimed: with a missing or malformed id, get gives null and every
\* update and delete fails with the invalid-id error.
C28_InvalidIdFails ==
  /\ GetMissGivesNull
  /\ InvalidIdCall =>
       /\ NothingStarted
       /\ call.kind = "get" =>
            call.result.state = "resolved" /\ call.result.value = NoRecord
       /\ call.kind \in {"update", "managerUpdate"} =>
            call.result = Rejected(InvalidIdForUpdate)
       /\ call.kind \in {"deleteData", "delete"} =>
            call.result = Rejected(InvalidIdForDeletion)

\* C28 as amended: with a missing or malformed id no transaction is started
\* and the store is unchanged; get gives null, the updates and
\* deleteDataFromStore reject with the invalid-id error, and delete, of the
\* manager and of a store proxy, resolves false.
C28_InvalidIdFailsButDelete ==
  /\ GetMissGivesNull
  /\ InvalidIdCall =>
       /\ NothingStarted
       /\ call.kind = "get" =>
            call.result.state = "resolved" /\ call.result.value = NoRecord
       /\ call.kind \in {"update", "managerUpdate"} =>
            call.result = Rejected(InvalidIdForUpdate)
       /\ call.kind = "deleteData" =>
            call.result = Rejected(InvalidIdForDeletion)
       /\ call.kind = "delete" => call.result = Resolved("false")

\* A get of a blank id on a store that holds a record.
C28_Witness ==
  /\ InvalidIdCall
  /\ call.kind = "get"
  /\ call.ids[1] = Str(<<" ">>)
  /\ table # {}
  /\ call.tx = 0

\* A mutating call on one of the stores has returned.
MutationDone == mutation.pc = "done"

\* C26: every notification of a mutation carries the configuration of the
\* store that was mutated, the affected id, a timestamp and the kind of
\* operation.
C26_PayloadNamesCollection ==
  MutationDone =>
    \A i \in 1..Len(mutation.emitted) :
      LET payload == mutation.emitted[i]
      IN /\ payload.config.store = Str(<<mutation.store>>)
         /\ payload.config.name = dbConfig.name
         /\ payload.data = IF mutation.kind = "clear" THEN {}
                           ELSE {mutation.id}
         /\ payload.metadata.operation =
              (CASE mutation.kind = "save" ->
                      IF mutation.isUpdate THEN "update" ELSE "add"
                 [] mutation.kind = "deleteData" -> "delete"
                 [] OTHER -> mutation.kind)
         /\ payload.metadata.timestamp = createTimestamp

\* C29: once a clear of one store has resolved, that store has no records
\* and every other store of the connection has the records it had.
C29_ClearOneCollection ==
  (MutationDone /\ mutation.kind = "clear"
     /\ mutation.result.state = "resolved")
  => /\ collections[mutation.store] = {}
     /\ \A s \in SchemaStores \ {mutation.store} :
          collections[s] = mutation.before[s]

\* A clear of a store that held records, resolved, while another store
\* holds records.
C29_Witness ==
  /\ MutationDone /\ mutation.kind = "clear"
  /\ mutation.result.state = "resolved"
  /\ mutation.before[mutation.store] # {}
  /\ \E s \in SchemaStores \ {mutation.store} : collections[s] # {}
  /\ Len(mutation.emitted) = 1

\* C27: setDatabase given an invalid configuration rejects with 'Invalid
\* database configuration provided' and leaves the manager as it was: the
\* configuration is kept, and the connection is neither closed nor replaced.
C27_InvalidConfigChangesNothing ==
  [][(setCall.pc = "idle" /\ setCall'.pc # "idle"
        /\ ~validateAnyDatabaseConfig(setCall'.config))
       => /\ setCall'.pc = "done"
          /\ setCall'.result = Rejected(InvalidConfigProvided)
          /\ UNCHANGED <<dbConfig, thisDb, closedDbs, requests>>]_vars

\* A schema without stores given to a manager that holds a connection and
\* whose configuration an earlier setDatabase had set.
C27_Witness ==
  /\ setCall.pc = "done"
  /\ "stores" \in DOMAIN setCall.config
  /\ setCall.config.stores = <<>>
  /\ setCall.result.state = "rejected"
  /\ thisDb # 0
  /\ thisDb \notin closedDbs
  /\ dbConfig # SchemaConfig

\* ------------------------------------------------------------- listeners
\* The callbacks of a list other than one callback, in their order.
Others(callbacks, callback) == SelectSeq(callbacks, LAMBDA c : c # callback)

\* The step from the return of off(event, callback) to the next emission of
\* that event.
EmitAfterOff ==
  /\ emitterCall.op = "off"
  /\ emitterCall.callback # NoCallback
  /\ emitterCall'.op = "emit"
  /\ emitterCall'.event = emitterCall.event

\* C30: after off(event, listener) has returned, a notification emitted for
\* that event does not invoke the listener; the other listeners that were
\* registered for the event before off are all invoked, in their order.
C30_OffSilencesListener ==
  [][EmitAfterOff =>
       /\ Others(emitterCall'.invoked, emitterCall.callback)
            = emitterCall'.invoked
       /\ emitterCall'.invoked
            = Others(emitterCall.before[emitterCall.event],
                     emitterCall.callback)]_vars

\* ------------------------------------------------------------- utilities
\* C31: normalizeId is idempotent: applied to an identifier it has returned,
\* it returns that identifier again.
C31_NormalizeIdIdempotent ==
  [][(calc.fn = "normalizeId" /\ calc.applied = 1
        /\ calc'.fn = "normalizeId" /\ calc'.applied = 2)
       => calc'.value = calc.value]_vars

\* normalizeId has been applied twice to a string with surrounding blanks
\* that reads as a number above Number.MAX_SAFE_INTEGER.
C31_Witness ==
  /\ calc.fn = "normalizeId"
  /\ calc.applied = 2
  /\ calc.x = Str(<<" ", AboveMaxDigits, " ">>)
  /\ calc.value = Str(<<AboveMaxDigits>>)

\* --------------------------------------------------- open and reconfigure
\* C32: whenever the manager holds a connection, it is a connection to the
\* database, by name and version, of the manager's current configuration.
C32_ConnectionOfCurrentConfig ==
  thisDb # 0 => DatabaseOf(thisDb) = ConfiguredDatabase

\* -------------------------------------------------- notification and commit
\* C33: an operation whose transaction did not commit (it aborted, or the
\* operation's promise rejected) has emitted no notification: a notification
\* is emitted only once the write it announces is committed.
C33_NoNotificationWithoutCommit ==
  \A p \in OpProcs :
    (OpDone(p) /\ ops[p].outcome # "commit") => ops[p].emitted = <<>>

\* ------------------------------------------------------ add or update
\* The step in which the write transaction of operation p ends.
WriteEnds(p) == ops[p].pc = "write" /\ ops'[p].pc = "done"

\* Whether the record of the i-th item of p is in the collection at the
\* moment the item is written: it was there when the transaction began, or
\* an earlier item of the same call has written it.
PresentWhenWritten(p, i) ==
  \/ storeHas(content, ops'[p].ids[i])
  \/ \E j \in 1..(i - 1) : ops'[p].ids[j] = ops'[p].ids[i]

\* C34: a notification of save or addMany has kind 'update' exactly when a
\* record with the identifier is in the collection at the moment the record
\* is written, and kind 'add' otherwise.
C34_KindTellsPresence ==
  [][\A p \in OpProcs :
       (WriteEnds(p) /\ ops[p].kind \in {"save", "addMany"})
       => \A i \in 1..Len(ops'[p].emitted) :
            ops'[p].emitted[i][1] =
              IF PresentWhenWritten(p, i) THEN "update" ELSE "add"]_vars

\* ------------------------------------------------ updateMany and update
\* The store after update has been called on each of the first n items, one
\* after another, every transaction committing.
RECURSIVE UpdatedEach(_, _, _, _)
UpdatedEach(data, ids, fields, n) ==
  IF n = 0 THEN data
  ELSE updateDataByIdInStore(UpdatedEach(data, ids, fields, n - 1),
                             ids[n], fields, "commit").table

\* C35: an updateMany that answers true leaves the collection as update
\* called on each item in turn leaves it: the fields given are merged into
\* the record of the item's identifier, and an item whose identifier has no
\* record creates nothing and changes nothing.
C35_UpdateManyAsUpdates ==
  (CallDone /\ call.kind = "updateMany" /\ call.result = Resolved("true"))
    => table = UpdatedEach(call.before, call.ids, call.fields, Len(call.ids))

\* ------------------------------------------------ identifiers of a batch
\* C36: an identifier that addMany assigns to a record given without one is
\* the identifier of no record already in the collection and of no other
\* record of the batch, explicit identifiers of later records included.
C36_AssignedIdIsFresh ==
  [][\A p \in OpProcs :
       (WriteEnds(p) /\ ops[p].kind = "addMany")
       => \A i \in 1..Len(ops[p].items) :
            ~isValidId(ops[p].items[i])
            => /\ ~storeHas(content, ops'[p].ids[i])
               /\ \A j \in 1..Len(ops[p].items) :
                    j # i => ops'[p].ids[j] # ops'[p].ids[i]]_vars

\* ------------------------------------------------------------------ once
\* How many times a function was called in the course of the last emit, the
\* emissions made from inside its listeners included.
TimesCalled(registered) ==
  Len(SelectSeq(emitterCall.invoked \o emitterCall.nested,
                LAMBDA r : r = registered))

\* C37: a listener registered with once is invoked for at most one emission
\* of its event, also when it throws and when the event is emitted again
\* from inside it, and once it has been invoked it is no longer registered.
C37_OnceAtMostOnce ==
  emitterCall.op = "emit" =>
    \A registered \in OnceCallbacks :
      /\ TimesCalled(registered) <= 1
      /\ TimesCalled(registered) = 1 =>
           \A i \in DOMAIN events[emitterCall.event] :
             events[emitterCall.event][i] # registered

\* ---------------------------------------------------------------- import
\* Nothing of the import is pending: the open and clear requests and every
\* put request have been answered and the transaction has ended.
ImportQuiet ==
  /\ importCall.pc \in {"write", "done", "thrown"}
  /\ importCall.answered = Len(importCall.issued)
  /\ importStore.txn # "active"

\* The identifiers of the valid records of the data.
ValidIds ==
  LET valid == processedData(importCall.data, TRUE)
  IN {valid[i].id : i \in 1..Len(valid)}

\* C38: once a restore (an import with clearBefore and validate) has
\* resolved true, the store holds exactly the valid records of the backup.
C38_RestoreGivesBackup ==
  (ImportQuiet /\ importCall.options = [clearBefore |-> TRUE, validate |-> TRUE]
     /\ importCall.promise = "true")
    => importStore.stored = ValidIds

\* C39: importDataToDatabase settles, by one call of resolve, whatever the
\* open, clear and put requests answer: with true only if every item was
\* written, and with false if the write of an item failed.
C39_ImportSettlesOnce ==
  ImportQuiet =>
    /\ importCall.promise # "pending"
    /\ importCall.resolves = 1
    /\ importCall.promise = "true" =>
         (~importCall.failed /\ Len(importCall.issued) = importCall.total)
    /\ importCall.failed => importCall.promise = "false"

\* ---------------------------------------------------------------- search
\* The matches of the search in progress, ordered as its options ask.
OrderedMatches ==
  LET withIds == [i \in DOMAIN calc.allData |->
                    [id |-> i, category |-> calc.allData[i].category,
                     rank |-> calc.allData[i].rank]]
      matching(item) == matchesQuery(item, calc.query)
  IN sortedData(SelectSeq(withIds, matching), calc.options)

\* Whether items is the run of the ordered matches that starts at position
\* offset and has limit elements, or as many as are left.
RunOf(items, ordered, offset, limit) ==
  LET left == IF Len(ordered) > offset THEN Len(ordered) - offset ELSE 0
  IN /\ Len(items) = IF limit < left THEN limit ELSE left
     /\ \A i \in 1..Len(items) : items[i] = ordered[offset + i]

\* C40: of a search with a limit and an offset, total is the number of the
\* records that match the query, and items is the run of the ordered
\* matches that starts at position offset and has at most limit elements,
\* be the query empty or not.
C40_SearchPage ==
  (calc.fn = "search" /\ calc.options.limit.type = "number"
     /\ calc.options.offset.type = "number")
    => /\ calc.result.total = Len(OrderedMatches)
       /\ RunOf(calc.result.items, OrderedMatches,
                calc.options.offset.v, calc.options.limit.v)

====
